---- MODULE Spec2Model ----
(***************************************************************************)
(* A model of the EVM interpreter of evm-from-scratch (rust/src).          *)
(*                                                                         *)
(* The world state, the call frames (message, code, stack, memory, logs,   *)
(* result, last inner call) and the per-opcode step function are modelled  *)
(* from execution/mod.rs, execution/evm.rs, execution/code.rs,             *)
(* execution/stack.rs and types/*.rs.  The recursion of CALL,              *)
(* DELEGATECALL and STATICCALL is an explicit sequence of frames: the      *)
(* opcode action enters the child frame (EVM::new and the head of          *)
(* EVM::execute), and FrameEnd runs the tail of EVM::execute of the child  *)
(* followed by the rest of the parent's call handler.                      *)
(*                                                                         *)
(* Widths are scaled: a 256-bit word is WordBits bits wide, usize is       *)
(* UsizeBits bits wide and an address is AddrBits bits wide, with          *)
(* AddrBits <= UsizeBits < WordBits as in the program (160 vs 64 is the    *)
(* one order that is not kept; no operation of the model compares them).   *)
(***************************************************************************)
EXTENDS Integers, Sequences, FiniteSets, TLC

VARIABLES
    state,      \* Environment.state: the accounts map (Address -> Account)
    frames,     \* the nested EVM instances, outermost first
    phase,      \* "init" before Transaction::process, "run", then "done"
    txresult,   \* the EVMResult handed back by Message::process
    ev,         \* history: the step just taken and the frame/state it acted on
    code,       \* a stand-alone Code value (bytecode, opcodes, pc)
    jres,       \* history: the last Code operation applied and its outcome
    unit,       \* a stand-alone Stack or Memory value
    ures        \* history: the last operation applied to unit and its outcome

vars == <<state, frames, phase, txresult, ev, code, jres, unit, ures>>

-----------------------------------------------------------------------------
(* Bounds of the model *)

\* longest sequence of snippets a generated contract is made of
MaxSnippets == 2
\* largest value a transaction or a CALL carries
MaxValue == 1
\* deepest nesting of frames the model follows
MaxDepth == 4
\* longest bytecode of the stand-alone Code specification
MaxCodeLen == 4

(* Scaled widths *)
WordBits == 16
UsizeBits == 8
AddrBits == 8

Pow2(n) == 2 ^ n
WordMod == Pow2(WordBits)
UsizeMax == Pow2(UsizeBits) - 1
AddrMod == Pow2(AddrBits)

(* Program constants *)
StackLimit == 1024
PageSize == 32

None == [none |-> TRUE]

Min(a, b) == IF a < b THEN a ELSE b

\* U256::saturating_to::<usize>()
saturating_to(w) == Min(w, UsizeMax)

\* the two builds: with overflow checks (debug) and with wrapping usize
Builds == {"debug", "release"}

\* a usize expression: a build with overflow checks panics outside
\* 0..usize::MAX, the other wraps
UsizeArith(x, build) ==
    IF x >= 0 /\ x <= UsizeMax THEN [ok |-> TRUE, v |-> x]
    ELSE IF build = "debug" THEN [ok |-> FALSE, v |-> 0]
    ELSE [ok |-> TRUE, v |-> x % (UsizeMax + 1)]

\* From<U256> for Address: the low bits of the word
AddressFrom(w) == w % AddrMod

-----------------------------------------------------------------------------
(* execution/code.rs *)

Absent == [op |-> "absent", n |-> 0]
Op(name) == [op |-> name, n |-> 0]
OpN(name, k) == [op |-> name, n |-> k]

\* U256::try_from_be_slice at the scaled width
RECURSIVE BigEndian(_)
BigEndian(bytes) ==
    IF bytes = <<>> THEN 0
    ELSE (BigEndian(SubSeq(bytes, 1, Len(bytes) - 1)) * 256 + bytes[Len(bytes)]) % WordMod

\* the opcodes this revision of code.rs does not declare but mod.rs dispatches on
DecodeCallFamily(byte) ==
    CASE byte = 244 -> Op("DELEGATECALL")
      [] byte = 61 -> Op("RETURNDATASIZE")
      [] byte = 62 -> Op("RETURNDATACOPY")
      [] byte = 250 -> Op("STATICCALL")
      [] OTHER -> Op("INVALID")

\* the match of Code::opcodes on one byte; counter is pc + 1 (0-based)
DecodeAt(bytecode, pc) ==
    LET byte == bytecode[pc + 1]
        counter == pc + 1
    IN  CASE byte = 0 -> Op("STOP")
          [] byte = 1 -> Op("ADD")
          [] byte = 2 -> Op("MUL")
          [] byte = 3 -> Op("SUB")
          [] byte = 4 -> Op("DIV")
          [] byte = 5 -> Op("SDIV")
          [] byte = 6 -> Op("MOD")
          [] byte = 7 -> Op("SMOD")
          [] byte = 8 -> Op("ADDMOD")
          [] byte = 9 -> Op("MULMOD")
          [] byte = 10 -> Op("EXP")
          [] byte = 11 -> Op("SIGNEXTEND")
          [] byte = 16 -> Op("LT")
          [] byte = 17 -> Op("GT")
          [] byte = 18 -> Op("SLT")
          [] byte = 19 -> Op("SGT")
          [] byte = 20 -> Op("EQ")
          [] byte = 21 -> Op("ISZERO")
          [] byte = 22 -> Op("AND")
          [] byte = 23 -> Op("OR")
          [] byte = 24 -> Op("XOR")
          [] byte = 25 -> Op("NOT")
          [] byte = 26 -> Op("BYTE")
          [] byte = 27 -> Op("SHL")
          [] byte = 28 -> Op("SHR")
          [] byte = 29 -> Op("SAR")
          [] byte = 32 -> Op("SHA3")
          [] byte = 48 -> Op("ADDRESS")
          [] byte = 49 -> Op("BALANCE")
          [] byte = 50 -> Op("ORIGIN")
          [] byte = 51 -> Op("CALLER")
          [] byte = 52 -> Op("CALLVALUE")
          [] byte = 53 -> Op("CALLDATALOAD")
          [] byte = 54 -> Op("CALLDATASIZE")
          [] byte = 55 -> Op("CALLDATACOPY")
          [] byte = 56 -> Op("CODESIZE")
          [] byte = 57 -> Op("CODECOPY")
          [] byte = 58 -> Op("GASPRICE")
          [] byte = 59 -> Op("EXTCODESIZE")
          [] byte = 60 -> Op("EXTCODECOPY")
          [] byte = 63 -> Op("EXTCODEHASH")
          [] byte = 64 -> Op("BLOCKHASH")
          [] byte = 65 -> Op("COINBASE")
          [] byte = 66 -> Op("TIMESTAMP")
          [] byte = 67 -> Op("NUMBER")
          [] byte = 68 -> Op("DIFFICULTY")
          [] byte = 69 -> Op("GASLIMIT")
          [] byte = 70 -> Op("CHAINID")
          [] byte = 71 -> Op("SELFBALANCE")
          [] byte = 72 -> Op("BASEFEE")
          [] byte = 80 -> Op("POP")
          [] byte = 81 -> Op("MLOAD")
          [] byte = 82 -> Op("MSTORE")
          [] byte = 83 -> Op("MSTORE8")
          [] byte = 84 -> Op("SLOAD")
          [] byte = 85 -> Op("SSTORE")
          [] byte = 86 -> Op("JUMP")
          [] byte = 87 -> Op("JUMPI")
          [] byte = 88 -> Op("PC")
          [] byte = 89 -> Op("MSIZE")
          [] byte = 90 -> Op("GAS")
          [] byte = 91 -> Op("JUMPDEST")
          [] byte >= 96 /\ byte <= 127 ->
                LET n == byte - 95
                    bytes == SubSeq(bytecode, counter + 1, Min(counter + n, Len(bytecode)))
                IN  OpN("PUSH", BigEndian(bytes))
          [] byte >= 128 /\ byte <= 143 -> OpN("DUP", byte - 127)
          [] byte >= 144 /\ byte <= 159 -> OpN("SWAP", byte - 143)
          [] byte >= 160 /\ byte <= 164 -> OpN("LOG", byte - 160)
          [] byte = 241 -> Op("CALL")
          [] byte = 243 -> Op("RETURN")
          [] byte = 253 -> Op("REVERT")
          [] OTHER -> DecodeCallFamily(byte)

\* the position after the opcode at pc: pc + 1, plus n for a PUSHn
CounterAfterPushByte(bytecode, pc) == pc + 1

\* counter after the match: pc + 1, and `counter += n` for a PUSH of n bytes
CounterAfter(bytecode, pc) ==
    LET byte == bytecode[pc + 1]
    IN  IF byte >= 96 /\ byte <= 127 THEN pc + 1 + (byte - 95) ELSE pc + 1

RECURSIVE DecodeFrom(_, _, _)
DecodeFrom(bytecode, pc, acc) ==
    IF pc >= Len(acc) THEN acc
    ELSE DecodeFrom(bytecode, CounterAfter(bytecode, pc),
                    [acc EXCEPT ![pc + 1] = DecodeAt(bytecode, pc)])

\* an index that decodes every byte, PUSH data included
opcodesEveryByte(bytecode) == [i \in 1..Len(bytecode) |-> DecodeAt(bytecode, i - 1)]

\* Code::opcodes
opcodes(bytecode) ==
    DecodeFrom(bytecode, 0, [i \in 1..Len(bytecode) |-> Absent])

\* Code::new
CodeNew(bytecode) == [bytecode |-> bytecode, opcodes |-> opcodes(bytecode), pc |-> 0]

OpcodeGetInvalid(c, pc) == IF pc < Len(c.opcodes) THEN c.opcodes[pc + 1] ELSE Op("INVALID")

\* opcodes.get(pc).unwrap_or(&Some(STOP))
OpcodeGet(c, pc) == IF pc < Len(c.opcodes) THEN c.opcodes[pc + 1] ELSE Op("STOP")

\* the loop of Iterator::next for Code: the first position >= pc that is not absent
RECURSIVE SkipAbsent(_, _)
SkipAbsent(c, pc) == IF OpcodeGet(c, pc) = Absent THEN SkipAbsent(c, pc + 1) ELSE pc

\* Iterator::next for Code: the opcode returned and the code with pc advanced
CodeNextOpcode(c) == OpcodeGet(c, SkipAbsent(c, c.pc))
CodeNext(c) == [c EXCEPT !.pc = SkipAbsent(c, c.pc) + 1]

\* Code::jump_to: [ok, code]
JumpToByte(c, counter) ==
    IF /\ counter <= UsizeMax
       /\ counter < Len(c.bytecode)
       /\ c.bytecode[counter + 1] = 91
    THEN [ok |-> TRUE, code |-> [c EXCEPT !.pc = counter]]
    ELSE [ok |-> FALSE, code |-> c]

jump_to(c, counter) ==
    IF /\ counter <= UsizeMax
       /\ counter < Len(c.opcodes)
       /\ c.opcodes[counter + 1] = Op("JUMPDEST")
    THEN [ok |-> TRUE, code |-> [c EXCEPT !.pc = counter]]
    ELSE [ok |-> FALSE, code |-> c]

-----------------------------------------------------------------------------
(* execution/stack.rs: the stack is the slice arr[0..=top], top last *)

Ok(stack, vals) == [ok |-> TRUE, err |-> "none", stack |-> stack, vals |-> vals]
Err(e, stack) == [ok |-> FALSE, err |-> e, stack |-> stack, vals |-> <<>>]

\* a push that tests the depth after the limit, not at it
PushPastLimit(stack, w) ==
    IF Len(stack) > StackLimit
    THEN Err("StackOverflow", stack)
    ELSE Ok(Append(stack, w), <<>>)

\* Stack::push
push(stack, w) ==
    IF Len(stack) >= StackLimit
    THEN Err("StackOverflow", stack)
    ELSE Ok(Append(stack, w), <<>>)

\* Stack::pop
pop(stack) ==
    IF stack = <<>>
    THEN Err("NotEnoughValuesOnStack", stack)
    ELSE Ok(SubSeq(stack, 1, Len(stack) - 1), <<stack[Len(stack)]>>)

\* n calls of Stack::pop chained with `?` / and_then: the values in the order
\* they are popped; the pops made before the failing one stay made
RECURSIVE PopChain(_, _, _)
PopChain(stack, n, vals) ==
    IF n = 0 THEN Ok(stack, vals)
    ELSE LET r == pop(stack)
         IN  IF r.ok THEN PopChain(r.stack, n - 1, vals \o r.vals)
             ELSE Err(r.err, r.stack)

PopN(stack, n) == PopChain(stack, n, <<>>)

\* Stack::dup
dup(stack, n) ==
    LET index_to_dup == n - 1
    IN  IF stack = <<>> \/ Len(stack) - 1 < index_to_dup
        THEN Err("NotEnoughValuesOnStack", stack)
        ELSE push(stack, stack[Len(stack) - index_to_dup])

\* a swap of the top word with the n-th word from the top
swapOffByOne(stack, n) ==
    IF stack = <<>> \/ Len(stack) - 1 < n
    THEN Err("NotEnoughValuesOnStack", stack)
    ELSE LET top == Len(stack)
         IN  Ok([stack EXCEPT ![top - n + 1] = stack[top], ![top] = stack[top - n + 1]], <<>>)

\* Stack::swap
swap(stack, n) ==
    IF stack = <<>> \/ Len(stack) - 1 < n
    THEN Err("NotEnoughValuesOnStack", stack)
    ELSE LET top == Len(stack)
         IN  Ok([stack EXCEPT ![top - n] = stack[top], ![top] = stack[top - n]], <<>>)

\* From<&StackResult> for Vec<U256>: top first
RECURSIVE Reverse(_)
Reverse(s) == IF s = <<>> THEN <<>> ELSE Append(Reverse(Tail(s)), Head(s))

-----------------------------------------------------------------------------
(* Memory as the interpreter uses it: load(offset, size), store(offset,   *)
(* size, src), load_u256, store_u256 over usize offsets                    *)

Zeros(n) == [i \in 1..n |-> 0]

\* growth in 32-byte pages until the length covers `needed` bytes
Expand(mem, needed) ==
    IF Len(mem) >= needed THEN mem
    ELSE mem \o Zeros(((needed + PageSize - 1) \div PageSize) * PageSize - Len(mem))

\* Memory::load: [mem, bytes]
MemLoad(mem, offset, size) ==
    LET m == Expand(mem, offset + size)
    IN  [mem |-> m, bytes |-> SubSeq(m, offset + 1, offset + size)]

\* Memory::store(offset, size, src): src truncated or zero-padded to size bytes
MemStore(mem, offset, size, src) ==
    LET m == Expand(mem, offset + size)
    IN  [i \in 1..Len(m) |->
            IF i > offset /\ i <= offset + size
            THEN (IF i - offset <= Len(src) THEN src[i - offset] ELSE 0)
            ELSE m[i]]

WordBytes == (WordBits + 7) \div 8

\* U256::to_be_bytes::<32>() at the scaled width
ToBeBytes(w) ==
    [i \in 1..PageSize |->
        IF i <= PageSize - WordBytes THEN 0 ELSE (w \div Pow2(8 * (PageSize - i))) % 256]

\* Memory::store_u256
MemStoreWord(mem, offset, w) == MemStore(mem, offset, PageSize, ToBeBytes(w))

\* Memory::load_u256: [mem, value]
MemLoadWord(mem, offset) ==
    LET r == MemLoad(mem, offset, PageSize)
    IN  [mem |-> r.mem, value |-> BigEndian(r.bytes)]

-----------------------------------------------------------------------------
(* types/bytes.rs and types/int256.rs at the scaled width: the sign bit is  *)
(* bit WordBits - 1, Bitsize::MAX is WordBits - 1 and Bytesize::MAX is      *)
(* WordBytes - 1                                                            *)

\* U256::bit: false for an index outside the word
Bit(w, i) == i < WordBits /\ (w \div Pow2(i)) % 2 = 1

\* From<U256> for Bitsize: clamp(MIN, MAX)
BitsizeFrom(u) == Min(u, WordBits - 1)

\* b.saturating_to() of SIGNEXTEND: TryFrom<&U256> for Bytesize answers
\* Overflow(_, _, Bytesize::MAX) above MAX, and saturating_to takes the MAX
BytesizeSaturating(u) == Min(u, WordBytes - 1)

\* Int256::is_negative
is_negative(w) == Bit(w, WordBits - 1)

\* Int256::abs: !self.0 + 1, the + of ruint wraps
abs(w) == IF is_negative(w) THEN ((WordMod - 1 - w) + 1) % WordMod ELSE w

\* Int256::from_u256
from_u256(u, negative) == IF negative THEN ((WordMod - 1 - u) + 1) % WordMod ELSE u

Int256DivUnsigned(dividend, divisor) == IF divisor = 0 THEN 0 ELSE dividend \div divisor

\* impl ops::Div for Int256; max_negative_value is WordMod / 2, negative_one WordMod - 1
Int256Div(dividend, divisor) ==
    IF divisor = 0 THEN 0
    ELSE IF dividend = WordMod \div 2 /\ divisor = WordMod - 1 THEN dividend
    ELSE from_u256(abs(dividend) \div abs(divisor),
                   is_negative(dividend) # is_negative(divisor))

Int256RemByZero(dividend, divisor) ==
    IF divisor = 0 THEN dividend ELSE from_u256(abs(dividend) % abs(divisor), is_negative(dividend))

\* impl ops::Rem for Int256
Int256Rem(dividend, divisor) ==
    IF divisor = 0 THEN 0
    ELSE IF dividend = WordMod \div 2 /\ divisor = WordMod - 1 THEN dividend
    ELSE from_u256(abs(dividend) % abs(divisor), is_negative(dividend))

\* IntN::sign_extend of IntN { raw, size }: IntN::is_negative reads bit
\* size * 8 + 7; the leading 0x1F - size bytes become 0xFF
sign_extend(raw, size) ==
    IF Bit(raw, size * 8 + 7)
    THEN ((raw % Pow2(8 * (size + 1))) + Pow2(8 * WordBytes) - Pow2(8 * (size + 1))) % WordMod
    ELSE raw

\* impl ops::Shr<Bitsize> for Int256; From<Bitsize> for Bytesize is shift / 8
Int256Shr(w, shift) ==
    IF shift = WordBits - 1
    THEN (IF is_negative(w) THEN WordMod - 1 ELSE 0)
    ELSE LET raw == w \div Pow2(shift)
         IN  IF is_negative(w) THEN sign_extend(raw, shift \div 8) ELSE raw

-----------------------------------------------------------------------------
(* types/account.rs *)

EmptyStorage == [k \in {} |-> 0]

EMPTY_ACCOUNT ==
    [kind |-> "Empty", nonce |-> 0, balance |-> 0, code |-> <<>>, storage |-> EmptyStorage]

ExternallyOwned(nonce, balance) ==
    [kind |-> "ExternallyOwned", nonce |-> nonce, balance |-> balance,
     code |-> <<>>, storage |-> EmptyStorage]

Contract(nonce, balance, bytecode, storage) ==
    [kind |-> "Contract", nonce |-> nonce, balance |-> balance,
     code |-> bytecode, storage |-> storage]

\* Account::new(balance, code); an Option is <<>> (None) or <<x>> (Some(x))
AccountNew(balance, bytecode) ==
    CASE balance = <<>> /\ bytecode = <<>> -> EMPTY_ACCOUNT
      [] balance # <<>> /\ bytecode = <<>> -> ExternallyOwned(0, balance[1])
      [] OTHER -> Contract(0, IF balance = <<>> THEN 0 ELSE balance[1], bytecode[1],
                           EmptyStorage)

\* Account::increase_balance: [ok, account]; checked_add fails past the word
increase_balance(account, amount) ==
    CASE account.kind = "Empty" ->
            [ok |-> TRUE, account |-> ExternallyOwned(0, amount)]
      [] OTHER ->
            IF account.balance + amount >= WordMod
            THEN [ok |-> FALSE, account |-> account]
            ELSE [ok |-> TRUE, account |-> [account EXCEPT !.balance = @ + amount]]

\* Account::load; a non-contract account panics ("impossible")
AccountCanLoad(account) == account.kind = "Contract"
AccountLoad(account, key) ==
    IF key \in DOMAIN account.storage THEN account.storage[key] ELSE 0

\* a store that keeps a key written with 0
AccountStoreKeepZero(account, key, value) ==
    IF account.kind = "Contract"
    THEN [account EXCEPT !.storage =
             [k \in DOMAIN @ \cup {key} |-> IF k = key THEN value ELSE @[k]]]
    ELSE account

\* Account::store
AccountStore(account, key, value) ==
    IF account.kind = "Contract"
    THEN [account EXCEPT !.storage =
             IF value = 0
             THEN [k \in DOMAIN @ \ {key} |-> @[k]]
             ELSE [k \in DOMAIN @ \cup {key} |-> IF k = key THEN value ELSE @[k]]]
    ELSE account

-----------------------------------------------------------------------------
(* types/state.rs *)

\* State::get_account
get_account(s, addr) == IF addr \in DOMAIN s THEN s[addr] ELSE EMPTY_ACCOUNT

\* State::update_account with the closure's result
update_account(s, addr, updated) ==
    [a \in DOMAIN s \cup {addr} |-> IF a = addr THEN updated ELSE s[a]]

\* State::send_eth: only the recipient is touched; [ok, state]
send_eth(s, from, to, amount) ==
    LET r == increase_balance(get_account(s, to), amount)
    IN  IF r.ok THEN [ok |-> TRUE, state |-> update_account(s, to, r.account)]
        ELSE [ok |-> FALSE, state |-> s]

-----------------------------------------------------------------------------
(* types/message.rs *)

\* Message::call
MessageCall(caller, target, gas, value, data) ==
    [kind |-> "Call", caller |-> caller, target |-> target, delegate |-> target,
     gas |-> gas, value |-> value, data |-> data]

\* Message::value
MessageValue(m) == IF m.kind = "Staticcall" THEN 0 ELSE m.value

\* a delegatecall that builds the message of a plain call to the delegate
MessageDelegatecallFresh(parent_call, delegate, gas, data) ==
    [kind |-> "Delegatecall", caller |-> parent_call.target, target |-> delegate,
     delegate |-> delegate, gas |-> gas, value |-> 0, data |-> data]

\* Message::delegatecall
MessageDelegatecall(parent_call, delegate, gas, data) ==
    [kind |-> "Delegatecall", caller |-> parent_call.caller, target |-> parent_call.target,
     delegate |-> delegate, gas |-> gas, value |-> MessageValue(parent_call), data |-> data]

\* Message::staticcall
MessageStaticcallAsCall(caller, target, gas, data) ==
    [kind |-> "Call", caller |-> caller, target |-> target, delegate |-> target,
     gas |-> gas, value |-> 0, data |-> data]

MessageStaticcall(caller, target, gas, data) ==
    [kind |-> "Staticcall", caller |-> caller, target |-> target, delegate |-> target,
     gas |-> gas, value |-> 0, data |-> data]

\* Message::is_staticcall
is_staticcallNever(m) == FALSE

is_staticcall(m) == m.kind = "Staticcall"

-----------------------------------------------------------------------------
(* execution/evm.rs: the EVM struct and its result *)

ResultOk(offset, size) == [ok |-> TRUE, err |-> "none", offset |-> offset, size |-> size]
ResultErr(e) == [ok |-> FALSE, err |-> e, offset |-> 0, size |-> 0]
\* a Revert that counts as a success
ResultRevertAsOk(offset, size) ==
    [ok |-> TRUE, err |-> "Revert", offset |-> offset, size |-> size]

ResultRevert(offset, size) == [ok |-> FALSE, err |-> "Revert", offset |-> offset, size |-> size]

\* EVM::new, arm Message::Call: the code of the target account
NewCode(s, message) == CodeNew(get_account(s, message.target).code)

\* EVM::new for the two message kinds the arm `_ => todo!()` stands for:
\* Delegatecall runs the delegate's code, Staticcall the target's
NewCodeOther(s, message) ==
    IF message.kind = "Delegatecall"
    THEN CodeNew(get_account(s, message.delegate).code)
    ELSE CodeNew(get_account(s, message.target).code)

\* EVM::new; snapshot is history: the state the frame was entered in
EVMNew(s, message) ==
    [message |-> message,
     stack |-> <<>>,
     memory |-> <<>>,
     code |-> IF message.kind = "Call" THEN NewCode(s, message) ELSE NewCodeOther(s, message),
     logs |-> <<>>,
     result |-> None,
     last_inner_call |-> None,
     pending |-> None,
     snapshot |-> s]

\* the head of EVM::execute ("Send Eth"): [frame, state, panic]
ExecuteHead(f, s) ==
    IF MessageValue(f.message) # 0
    THEN IF f.message.kind = "Staticcall"
         THEN [frame |-> [f EXCEPT !.result = ResultErr("StateModificationDisallowed")],
               state |-> s, panic |-> FALSE]
         ELSE LET r == send_eth(s, f.message.caller, f.message.target, MessageValue(f.message))
              IN  [frame |-> f, state |-> r.state, panic |-> ~r.ok]
    ELSE [frame |-> f, state |-> s, panic |-> FALSE]

\* the tail of EVM::execute ("Restore previous state snapshot": TODO): the state
\* the frame leaves behind
ExecuteTailSnapshot(f, s) == f.snapshot

ExecuteTail(f, s) == s

\* the bytes the caller reads back: memory.load(offset, size) of the returned
\* window, of the Revert window, or of (0, 0) for every other error
ReturnData(f) ==
    IF f.result.ok \/ f.result.err = "Revert"
    THEN MemLoad(f.memory, saturating_to(f.result.offset), saturating_to(f.result.size)).bytes
    ELSE <<>>

\* From<EVM> for EVMResult
EVMResultFrom(f) ==
    [stack |-> f.stack, logs |-> f.logs, result |-> f.result,
     return_data |-> ReturnData(f), status |-> f.result.ok]

\* From<EVMResult> for TestResult, with the logs main.rs compares
TestResultFrom(r) ==
    [stack |-> Reverse(r.stack), success |-> r.result.ok, logs |-> r.logs,
     return_data |-> r.return_data]

-----------------------------------------------------------------------------
(* The frames *)

Top == frames[Len(frames)]
Depth == Len(frames)

\* the frame the step loop of EVM::execute is iterating
CanStep ==
    /\ phase = "run"
    /\ frames # <<>>
    /\ Top.result = None
    /\ Top.pending = None

\* self.code.next(): the opcode matched on, and the frame with pc advanced
Fetched == CodeNextOpcode(Top.code)
Advanced == [Top EXCEPT !.code = CodeNext(@)]

\* written is history: the value of the last SSTORE done to each <<account, key>>
NoEvent ==
    [op |-> "none", frame |-> None, parent |-> None, state |-> <<>>, written |-> <<>>]
Event(name) ==
    [op |-> name, frame |-> Top, parent |-> None, state |-> state, written |-> ev.written]

\* the history after the step `name` that leaves the frame as f
Written(name, f) ==
    IF name = "SSTORE" /\ f.result = None
    THEN LET slot == <<Top.message.target, Top.stack[Len(Top.stack)]>>
         IN  [p \in DOMAIN ev.written \cup {slot} |->
                 IF p = slot THEN Top.stack[Len(Top.stack) - 1] ELSE ev.written[p]]
    ELSE ev.written

\* one step of Iterator::next for &mut EVM that stays in the frame
Step(name, f, s) ==
    /\ frames' = [frames EXCEPT ![Len(frames)] = f]
    /\ state' = s
    /\ ev' = [Event(name) EXCEPT !.written = Written(name, f)]
    /\ UNCHANGED <<phase, txresult, code, jres, unit, ures>>

\* a panic (expect / panic!) aborts the process
Panic(name) ==
    /\ phase' = "panic"
    /\ ev' = Event(name)
    /\ UNCHANGED <<state, frames, txresult, code, jres, unit, ures>>

\* Err(e) => { self.result = Some(Err(e)); None }
Fail(f, stack, e) == [f EXCEPT !.stack = stack, !.result = ResultErr(e)]

-----------------------------------------------------------------------------
(* execution/mod.rs: Iterator::next for &mut EVM, one action per opcode *)

STOP ==
    /\ CanStep /\ Fetched.op = "STOP"
    /\ Step("STOP", [Advanced EXCEPT !.result = ResultOk(0, 0)], state)

ADD ==
    /\ CanStep /\ Fetched.op = "ADD"
    /\ LET a == PopN(Advanced.stack, 2)
           c == IF a.ok THEN push(a.stack, (a.vals[1] + a.vals[2]) % WordMod) ELSE a
       IN  Step("ADD",
                IF c.ok THEN [Advanced EXCEPT !.stack = c.stack]
                ELSE Fail(Advanced, c.stack, c.err),
                state)

\* the handlers that pop their operands, compute a word and push it: a is
\* the result of the pops, word the value computed from them
Compute(name, a, word) ==
    LET c == IF a.ok THEN push(a.stack, word) ELSE a
    IN  Step(name,
             IF c.ok THEN [Advanced EXCEPT !.stack = c.stack]
             ELSE Fail(Advanced, c.stack, c.err),
             state)

\* if b == U256::ZERO { b } else { a / b }
DIV ==
    /\ CanStep /\ Fetched.op = "DIV"
    /\ LET a == PopN(Advanced.stack, 2)
       IN  Compute("DIV", a, IF a.vals[2] = 0 THEN a.vals[2] ELSE a.vals[1] \div a.vals[2])

SDIV ==
    /\ CanStep /\ Fetched.op = "SDIV"
    /\ LET a == PopN(Advanced.stack, 2)
       IN  Compute("SDIV", a, Int256Div(a.vals[1], a.vals[2]))

MOD ==
    /\ CanStep /\ Fetched.op = "MOD"
    /\ LET a == PopN(Advanced.stack, 2)
       IN  Compute("MOD", a, IF a.vals[2] = 0 THEN a.vals[2] ELSE a.vals[1] % a.vals[2])

SMOD ==
    /\ CanStep /\ Fetched.op = "SMOD"
    /\ LET a == PopN(Advanced.stack, 2)
       IN  Compute("SMOD", a, Int256Rem(a.vals[1], a.vals[2]))

\* U256::add_mod and U256::mul_mod of ruint: zero if the modulus is zero
ADDMOD ==
    /\ CanStep /\ Fetched.op = "ADDMOD"
    /\ LET a == PopN(Advanced.stack, 3)
       IN  Compute("ADDMOD", a, IF a.vals[3] = 0 THEN 0 ELSE (a.vals[1] + a.vals[2]) % a.vals[3])

MULMOD ==
    /\ CanStep /\ Fetched.op = "MULMOD"
    /\ LET a == PopN(Advanced.stack, 3)
       IN  Compute("MULMOD", a, IF a.vals[3] = 0 THEN 0
                      ELSE ((a.vals[1] % a.vals[3]) * (a.vals[2] % a.vals[3])) % a.vals[3])

\* IntN::from_raw_u256(x, b.saturating_to()).sign_extend()
SIGNEXTEND ==
    /\ CanStep /\ Fetched.op = "SIGNEXTEND"
    /\ LET a == PopN(Advanced.stack, 2)
       IN  Compute("SIGNEXTEND", a, sign_extend(a.vals[2], BytesizeSaturating(a.vals[1])))

\* Int256::from_raw_u256(value) >> shift.into()
SAR ==
    /\ CanStep /\ Fetched.op = "SAR"
    /\ LET a == PopN(Advanced.stack, 2)
       IN  Compute("SAR", a, Int256Shr(a.vals[2], BitsizeFrom(a.vals[1])))

POP ==
    /\ CanStep /\ Fetched.op = "POP"
    /\ LET a == pop(Advanced.stack)
       IN  Step("POP",
                IF a.ok THEN [Advanced EXCEPT !.stack = a.stack]
                ELSE Fail(Advanced, a.stack, a.err),
                state)

MLOAD ==
    /\ CanStep /\ Fetched.op = "MLOAD"
    /\ LET a == pop(Advanced.stack)
           l == MemLoadWord(Advanced.memory, saturating_to(a.vals[1]))
           c == push(a.stack, l.value)
       IN  Step("MLOAD",
                IF ~a.ok THEN Fail(Advanced, a.stack, a.err)
                ELSE IF ~c.ok THEN Fail([Advanced EXCEPT !.memory = l.mem], c.stack, c.err)
                ELSE [Advanced EXCEPT !.stack = c.stack, !.memory = l.mem],
                state)

MSTORE ==
    /\ CanStep /\ Fetched.op = "MSTORE"
    /\ LET a == PopN(Advanced.stack, 2)
       IN  Step("MSTORE",
                IF ~a.ok THEN Fail(Advanced, a.stack, a.err)
                ELSE [Advanced EXCEPT
                        !.stack = a.stack,
                        !.memory = MemStoreWord(@, saturating_to(a.vals[1]), a.vals[2])],
                state)

SLOAD ==
    /\ CanStep /\ Fetched.op = "SLOAD"
    /\ LET a == pop(Advanced.stack)
           account == get_account(state, Advanced.message.target)
           c == push(a.stack, AccountLoad(account, a.vals[1]))
       IN  IF a.ok /\ ~AccountCanLoad(account)
           THEN Panic("SLOAD")
           ELSE Step("SLOAD",
                     IF ~a.ok THEN Fail(Advanced, a.stack, a.err)
                     ELSE IF ~c.ok THEN Fail(Advanced, c.stack, c.err)
                     ELSE [Advanced EXCEPT !.stack = c.stack],
                     state)

SSTORE ==
    /\ CanStep /\ Fetched.op = "SSTORE"
    /\ LET a == PopN(Advanced.stack, 2)
           target == Advanced.message.target
       IN  IF is_staticcall(Advanced.message)
           THEN Step("SSTORE",
                     Fail(Advanced, Advanced.stack, "StateModificationDisallowed"), state)
           ELSE IF ~a.ok
           THEN Step("SSTORE", Fail(Advanced, a.stack, a.err), state)
           ELSE Step("SSTORE",
                     [Advanced EXCEPT !.stack = a.stack],
                     update_account(state, target,
                        AccountStore(get_account(state, target), a.vals[1], a.vals[2])))

JUMP ==
    /\ CanStep /\ Fetched.op = "JUMP"
    /\ LET a == pop(Advanced.stack)
           j == jump_to(Advanced.code, a.vals[1])
       IN  Step("JUMP",
                IF ~a.ok THEN Fail(Advanced, a.stack, a.err)
                ELSE IF ~j.ok THEN Fail(Advanced, a.stack, "InvalidJumpdest")
                ELSE [Advanced EXCEPT !.stack = a.stack, !.code = j.code],
                state)

JUMPIValidating ==
    /\ CanStep /\ Fetched.op = "JUMPI"
    /\ LET a == PopN(Advanced.stack, 2)
           j == jump_to(Advanced.code, a.vals[1])
       IN  Step("JUMPI",
                IF ~a.ok THEN Fail(Advanced, a.stack, a.err)
                ELSE IF ~j.ok THEN Fail(Advanced, a.stack, "InvalidJumpdest")
                ELSE IF a.vals[2] = 0 THEN [Advanced EXCEPT !.stack = a.stack]
                ELSE [Advanced EXCEPT !.stack = a.stack, !.code = j.code],
                state)

JUMPI ==
    /\ CanStep /\ Fetched.op = "JUMPI"
    /\ LET a == PopN(Advanced.stack, 2)
           j == jump_to(Advanced.code, a.vals[1])
       IN  Step("JUMPI",
                IF ~a.ok THEN Fail(Advanced, a.stack, a.err)
                ELSE IF a.vals[2] = 0 THEN [Advanced EXCEPT !.stack = a.stack]
                ELSE IF ~j.ok THEN Fail(Advanced, a.stack, "InvalidJumpdest")
                ELSE [Advanced EXCEPT !.stack = a.stack, !.code = j.code],
                state)

PCAfterOpcode ==
    /\ CanStep /\ Fetched.op = "PC"
    /\ LET c == push(Advanced.stack, Advanced.code.pc)
       IN  Step("PC",
                IF c.ok THEN [Advanced EXCEPT !.stack = c.stack]
                ELSE Fail(Advanced, c.stack, c.err),
                state)

PC ==
    /\ CanStep /\ Fetched.op = "PC"
    /\ LET c == push(Advanced.stack, Advanced.code.pc - 1)
       IN  Step("PC",
                IF c.ok THEN [Advanced EXCEPT !.stack = c.stack]
                ELSE Fail(Advanced, c.stack, c.err),
                state)

JUMPDEST ==
    /\ CanStep /\ Fetched.op = "JUMPDEST"
    /\ Step("JUMPDEST", Advanced, state)

PUSH ==
    /\ CanStep /\ Fetched.op = "PUSH"
    /\ LET c == push(Advanced.stack, Fetched.n)
       IN  Step("PUSH",
                IF c.ok THEN [Advanced EXCEPT !.stack = c.stack]
                ELSE Fail(Advanced, c.stack, c.err),
                state)

DUP ==
    /\ CanStep /\ Fetched.op = "DUP"
    /\ LET c == dup(Advanced.stack, Fetched.n)
       IN  Step("DUP",
                IF c.ok THEN [Advanced EXCEPT !.stack = c.stack]
                ELSE Fail(Advanced, c.stack, c.err),
                state)

SWAP ==
    /\ CanStep /\ Fetched.op = "SWAP"
    /\ LET c == swap(Advanced.stack, Fetched.n)
       IN  Step("SWAP",
                IF c.ok THEN [Advanced EXCEPT !.stack = c.stack]
                ELSE Fail(Advanced, c.stack, c.err),
                state)

\* a log with its topics in the reverse order
LogNewReversed(address, topics, data) ==
    [address |-> address,
     topics |-> [k \in 1..Len(topics) |-> topics[Len(topics) + 1 - k]],
     data |-> data]

\* Log::log0 .. Log::log4 and From<Log> for LogResult
LogNew(address, topics, data) == [address |-> address, topics |-> topics, data |-> data]

LOG ==
    /\ CanStep /\ Fetched.op = "LOG"
    /\ LET n == Fetched.n
           a == PopN(Advanced.stack, 2)
           offset == saturating_to(a.vals[1])
           size == saturating_to(a.vals[2])
           l == MemLoad(Advanced.memory, offset, size)
           t == PopN(a.stack, n)
           loaded == [Advanced EXCEPT !.memory = l.mem]
       IN  Step("LOG",
                IF is_staticcall(Advanced.message)
                THEN Fail(Advanced, Advanced.stack, "StateModificationDisallowed")
                ELSE IF ~a.ok THEN Fail(Advanced, a.stack, a.err)
                ELSE IF ~t.ok THEN Fail(loaded, t.stack, t.err)
                ELSE [loaded EXCEPT
                        !.stack = t.stack,
                        !.logs = Append(@, LogNew(Advanced.message.target, t.vals, l.bytes))],
                state)

RETURN ==
    /\ CanStep /\ Fetched.op = "RETURN"
    /\ LET a == PopN(Advanced.stack, 2)
       IN  Step("RETURN",
                IF ~a.ok THEN Fail(Advanced, a.stack, a.err)
                ELSE [Advanced EXCEPT !.stack = a.stack,
                                      !.result = ResultOk(a.vals[1], a.vals[2])],
                state)

REVERT ==
    /\ CanStep /\ Fetched.op = "REVERT"
    /\ LET a == PopN(Advanced.stack, 2)
       IN  Step("REVERT",
                IF ~a.ok THEN Fail(Advanced, a.stack, a.err)
                ELSE [Advanced EXCEPT !.stack = a.stack,
                                      !.result = ResultRevert(a.vals[1], a.vals[2])],
                state)

INVALIDUnset ==
    /\ CanStep /\ Fetched.op = "INVALID"
    /\ Step("INVALID", Advanced, state)

INVALID ==
    /\ CanStep /\ Fetched.op = "INVALID"
    /\ Step("INVALID", [Advanced EXCEPT !.result = ResultRevert(0, 0)], state)

\* ADDRESS: From<&Address> for U256 of self.message.target()
ADDRESS ==
    /\ CanStep /\ Fetched.op = "ADDRESS"
    /\ LET c == push(Advanced.stack, Advanced.message.target)
       IN  Step("ADDRESS",
                IF c.ok THEN [Advanced EXCEPT !.stack = c.stack]
                ELSE Fail(Advanced, c.stack, c.err),
                state)

\* CALLER: From<&Address> for U256 of self.message.caller()
CALLER ==
    /\ CanStep /\ Fetched.op = "CALLER"
    /\ LET c == push(Advanced.stack, Advanced.message.caller)
       IN  Step("CALLER",
                IF c.ok THEN [Advanced EXCEPT !.stack = c.stack]
                ELSE Fail(Advanced, c.stack, c.err),
                state)

CALLVALUE ==
    /\ CanStep /\ Fetched.op = "CALLVALUE"
    /\ LET c == push(Advanced.stack, MessageValue(Advanced.message))
       IN  Step("CALLVALUE",
                IF c.ok THEN [Advanced EXCEPT !.stack = c.stack]
                ELSE Fail(Advanced, c.stack, c.err),
                state)

\* Calldata::load_word: byte n of the word is self.0.get(offset + n), 0 when
\* there is none; offset + n is a usize sum. [ok, bytes]
load_word(data, offset, build) ==
    LET at == [n \in 0..(WordBytes - 1) |-> UsizeArith(offset + n, build)]
    IN  [ok |-> \A n \in 0..(WordBytes - 1) : at[n].ok,
         bytes |-> [k \in 1..WordBytes |->
                      IF at[k - 1].v < Len(data) THEN data[at[k - 1].v + 1] ELSE 0]]

\* CALLDATALOAD: load_word(i.saturating_to()), U256::from_be_bytes
CALLDATALOAD ==
    /\ CanStep /\ Fetched.op = "CALLDATALOAD"
    /\ \E build \in Builds :
         LET a == pop(Advanced.stack)
             w == load_word(Advanced.message.data, saturating_to(a.vals[1]), build)
             c == push(a.stack, BigEndian(w.bytes))
         IN  IF ~a.ok
             THEN Step("CALLDATALOAD", Fail(Advanced, a.stack, a.err), state)
             ELSE IF ~w.ok
             THEN Panic("CALLDATALOAD")
             ELSE Step("CALLDATALOAD",
                       IF c.ok THEN [Advanced EXCEPT !.stack = c.stack]
                       ELSE Fail(Advanced, c.stack, c.err),
                       state)

\* RETURNDATASIZE: last_inner_call.return_data().len(), 0 without a call
RETURNDATASIZE ==
    /\ CanStep /\ Fetched.op = "RETURNDATASIZE"
    /\ LET call == Advanced.last_inner_call
           size == IF call = None THEN 0 ELSE Len(call.return_data)
           c == push(Advanced.stack, size)
       IN  Step("RETURNDATASIZE",
                IF c.ok THEN [Advanced EXCEPT !.stack = c.stack]
                ELSE Fail(Advanced, c.stack, c.err),
                state)

\* RETURNDATACOPY: the range check and the store exist only under
\* `if let Some(call) = &self.last_inner_call`; offset + size is a usize sum
RETURNDATACOPY ==
    /\ CanStep /\ Fetched.op = "RETURNDATACOPY"
    /\ \E build \in Builds :
         LET a == PopN(Advanced.stack, 3)
             dest_offset == saturating_to(a.vals[1])
             offset == saturating_to(a.vals[2])
             size == saturating_to(a.vals[3])
             call == Advanced.last_inner_call
             sum == UsizeArith(offset + size, build)
         IN  IF ~a.ok
             THEN Step("RETURNDATACOPY", Fail(Advanced, a.stack, a.err), state)
             ELSE IF call = None
             THEN Step("RETURNDATACOPY", [Advanced EXCEPT !.stack = a.stack], state)
             ELSE IF ~sum.ok
             THEN Panic("RETURNDATACOPY")
             ELSE IF sum.v > Len(call.return_data)
             THEN Step("RETURNDATACOPY",
                       Fail(Advanced, a.stack, "OffsetHigherThanSize"), state)
             ELSE Step("RETURNDATACOPY",
                       [Advanced EXCEPT
                          !.stack = a.stack,
                          !.memory = MemStore(@, dest_offset, size, call.return_data)],
                       state)

-----------------------------------------------------------------------------
(* The call opcodes: the handler up to EVM::execute of the child *)

\* EVM::new and EVM::execute count no frames and refuse none. Every frame is
\* a native call of EVM::execute holding a Stack of 1024 words: unit.frames is
\* the number of them the native stack of the process has room for
DepthCap == IF unit = <<>> THEN MaxDepth ELSE unit.frames + 1

Pending(name, ret_offset, ret_size) ==
    [op |-> name, ret_offset |-> ret_offset, ret_size |-> ret_size]

\* EVM::new(self.env, &message) and the head of EVM::execute(evm); the parent
\* waits in its handler with ret_offset and ret_size
Enter(name, parent, message) ==
    /\ Depth < DepthCap
    /\ LET h == ExecuteHead(EVMNew(state, message), state)
       IN  IF h.panic \/ (unit # <<>> /\ Depth >= unit.frames)
           THEN Panic(name)
           ELSE /\ frames' = Append([frames EXCEPT ![Len(frames)] = parent], h.frame)
                /\ state' = h.state
                /\ ev' = Event(name)
                /\ UNCHANGED <<phase, txresult, code, jres, unit, ures>>

CALL ==
    /\ CanStep /\ Fetched.op = "CALL"
    /\ LET a == PopN(Advanced.stack, 7)
           gas == a.vals[1]
           target == AddressFrom(a.vals[2])
           value == a.vals[3]
           l == MemLoad(Advanced.memory, saturating_to(a.vals[4]), saturating_to(a.vals[5]))
           message == MessageCall(Advanced.message.target, target, gas, value, l.bytes)
           parent == [Advanced EXCEPT
                        !.stack = a.stack,
                        !.memory = l.mem,
                        !.pending = Pending("CALL", saturating_to(a.vals[6]),
                                            saturating_to(a.vals[7]))]
       IN  IF is_staticcall(Advanced.message)
           THEN Step("CALL",
                     Fail(Advanced, Advanced.stack, "StateModificationDisallowed"), state)
           ELSE IF ~a.ok
           THEN Step("CALL", Fail(Advanced, a.stack, a.err), state)
           ELSE Enter("CALL", parent, message)

DELEGATECALL ==
    /\ CanStep /\ Fetched.op = "DELEGATECALL"
    /\ LET a == PopN(Advanced.stack, 6)
           gas == a.vals[1]
           target == AddressFrom(a.vals[2])
           l == MemLoad(Advanced.memory, saturating_to(a.vals[3]), saturating_to(a.vals[4]))
           message == MessageDelegatecall(Advanced.message, target, gas, l.bytes)
           parent == [Advanced EXCEPT
                        !.stack = a.stack,
                        !.memory = l.mem,
                        !.pending = Pending("DELEGATECALL", saturating_to(a.vals[5]),
                                            saturating_to(a.vals[6]))]
       IN  IF is_staticcall(Advanced.message)
           THEN Step("DELEGATECALL",
                     Fail(Advanced, Advanced.stack, "StateModificationDisallowed"), state)
           ELSE IF ~a.ok
           THEN Step("DELEGATECALL", Fail(Advanced, a.stack, a.err), state)
           ELSE Enter("DELEGATECALL", parent, message)

STATICCALL ==
    /\ CanStep /\ Fetched.op = "STATICCALL"
    /\ LET a == PopN(Advanced.stack, 6)
           gas == a.vals[1]
           target == AddressFrom(a.vals[2])
           l == MemLoad(Advanced.memory, saturating_to(a.vals[3]), saturating_to(a.vals[4]))
           message == MessageStaticcall(Advanced.message.target, target, gas, l.bytes)
           parent == [Advanced EXCEPT
                        !.stack = a.stack,
                        !.memory = l.mem,
                        !.pending = Pending("STATICCALL", saturating_to(a.vals[5]),
                                            saturating_to(a.vals[6]))]
       IN  IF ~a.ok
           THEN Step("STATICCALL", Fail(Advanced, a.stack, a.err), state)
           ELSE Enter("STATICCALL", parent, message)

-----------------------------------------------------------------------------
(* The end of a frame: `while let Some(_) = iter.next() {}` is over, the   *)
(* tail of EVM::execute runs and the caller's handler goes on               *)

Ended ==
    /\ phase = "run"
    /\ frames # <<>>
    /\ Top.result # None

Parent == frames[Len(frames) - 1]

\* "Add result logs to logs": only in the arm `status: true`
MergeLogsAlways(logs, r) == logs \o r.logs

MergeLogsInFront(logs, r) == IF r.status THEN r.logs \o logs ELSE logs

MergeLogs(logs, r) == IF r.status THEN logs \o r.logs ELSE logs

\* .and_then(|status| self.stack.push(status as u8)): the word pushed
StatusWordOne(status) == 1

StatusWord(status) == IF status THEN 1 ELSE 0

ResumeStoreAtZero(parent, r, merge) ==
    LET stored == [parent EXCEPT
                     !.memory = MemStore(@, 0, parent.pending.ret_size, r.return_data),
                     !.logs = IF merge THEN MergeLogs(@, r) ELSE @,
                     !.last_inner_call = r,
                     !.pending = None]
        c == push(stored.stack, StatusWord(r.status))
    IN  IF c.ok THEN [stored EXCEPT !.stack = c.stack]
        ELSE Fail(stored, c.stack, c.err)

ResumeKeepOnFailure(parent, r, merge) ==
    LET stored == [parent EXCEPT
                     !.memory = MemStore(@, parent.pending.ret_offset,
                                         parent.pending.ret_size, r.return_data),
                     !.logs = IF merge THEN MergeLogs(@, r) ELSE @,
                     !.last_inner_call = IF r.status THEN r ELSE @,
                     !.pending = None]
        c == push(stored.stack, StatusWord(r.status))
    IN  IF c.ok THEN [stored EXCEPT !.stack = c.stack]
        ELSE Fail(stored, c.stack, c.err)

\* the handler of the parent from `let status = match &result` on
Resume(parent, r, merge) ==
    LET stored == [parent EXCEPT
                     !.memory = MemStore(@, parent.pending.ret_offset,
                                         parent.pending.ret_size, r.return_data),
                     !.logs = IF merge THEN MergeLogs(@, r) ELSE @,
                     !.last_inner_call = r,
                     !.pending = None]
        c == push(stored.stack, StatusWord(r.status))
    IN  IF c.ok THEN [stored EXCEPT !.stack = c.stack]
        ELSE Fail(stored, c.stack, c.err)

Return(name, merge) ==
    /\ frames' = Append(SubSeq(frames, 1, Len(frames) - 2),
                        Resume(Parent, EVMResultFrom(Top), merge))
    /\ state' = ExecuteTail(Top, state)
    /\ ev' = [op |-> name \o "_RETURN", frame |-> Top, parent |-> Parent, state |-> state,
              written |-> ev.written]
    /\ UNCHANGED <<phase, txresult, code, jres, unit, ures>>

\* was the frame on top entered by the call opcode `name` of the frame below
EndedIn(name) ==
    /\ Ended
    /\ Depth > 1
    /\ Parent.pending.op = name

CallReturn ==
    /\ EndedIn("CALL")
    /\ Return("CALL", TRUE)

DelegatecallReturn ==
    /\ EndedIn("DELEGATECALL")
    /\ Return("DELEGATECALL", TRUE)

\* STATICCALL has no log merge
StaticcallReturn ==
    /\ EndedIn("STATICCALL")
    /\ Return("STATICCALL", FALSE)

\* Message::process returns EVM::execute(evm).into() to Transaction::process
TransactionEnd ==
    /\ Ended
    /\ Depth = 1
    /\ txresult' = TestResultFrom(EVMResultFrom(Top))
    /\ state' = ExecuteTail(Top, state)
    /\ frames' = <<>>
    /\ phase' = "done"
    /\ ev' = [op |-> "TRANSACTION_END", frame |-> Top, parent |-> None, state |-> state,
              written |-> ev.written]
    /\ UNCHANGED <<code, jres, unit, ures>>

-----------------------------------------------------------------------------
(* The transactions the model runs: main.rs builds the state and the       *)
(* transaction, lib.rs / mod.rs process it                                  *)

Sender == 13
ContractA == 10
ContractB == ContractA + 1
ContractC == ContractA + 2

Push1(v) == <<96, v>>

\* SSTORE(key 1, value 1)
SStoreSnip == Push1(1) \o Push1(1) \o <<85>>
\* LOG0(offset 0, size 0)
Log0Snip == Push1(0) \o Push1(0) \o <<160>>
\* REVERT(offset 0, size 0)
RevertSnip == Push1(0) \o Push1(0) \o <<253>>
\* RETURN(offset 0, size 1)
ReturnSnip == Push1(1) \o Push1(0) \o <<243>>
InvalidSnip == <<254>>
PopSnip == <<80>>
\* JUMP(0): position 0 is never a JUMPDEST in a generated contract
BadJumpSnip == Push1(0) \o <<86>>

\* snippets that change the state or the logs and go on
EffectSnips == {SStoreSnip, Log0Snip}
\* snippets that halt the frame
HaltSnips == {RevertSnip, ReturnSnip, InvalidSnip, PopSnip, BadJumpSnip}

RECURSIVE Concats(_, _)
Concats(S, n) ==
    IF n = 0 THEN {<<>>}
    ELSE LET P == Concats(S, n - 1) IN P \cup {p \o x : p \in P, x \in S}

\* up to MaxSnippets snippets: effects, then an effect, a halt or the end of the code
LocalProgs ==
    { pre \o last : pre \in Concats(EffectSnips, MaxSnippets - 1),
                    last \in {<<>>} \cup EffectSnips \cup HaltSnips }

\* CALL(gas 0, addr, value, argsOffset 0, argsSize 0, retOffset 0, retSize 1)
CallSnip(addr, value) ==
    Push1(1) \o Push1(0) \o Push1(0) \o Push1(0) \o Push1(value) \o Push1(addr)
        \o Push1(0) \o <<241>>
\* DELEGATECALL(gas 0, addr, argsOffset 0, argsSize 0, retOffset 0, retSize 1)
DelegatecallSnip(addr) ==
    Push1(1) \o Push1(0) \o Push1(0) \o Push1(0) \o Push1(addr) \o Push1(0) \o <<244>>
\* STATICCALL(gas 0, addr, argsOffset 0, argsSize 0, retOffset 0, retSize 1)
StaticcallSnip(addr) ==
    Push1(1) \o Push1(0) \o Push1(0) \o Push1(0) \o Push1(addr) \o Push1(0) \o <<250>>

CallSnips(addr) ==
    {CallSnip(addr, v) : v \in 0..MaxValue} \cup {DelegatecallSnip(addr), StaticcallSnip(addr)}

\* <<byte, k>>: an opcode byte and the number of stack arguments its handler pops
Arity ==
    { <<0, 0>>, <<1, 2>>, <<80, 1>>, <<81, 1>>, <<82, 2>>, <<84, 1>>, <<85, 2>>,
      <<86, 1>>, <<87, 2>>, <<88, 0>>, <<91, 0>>, <<128, 1>>, <<129, 2>>, <<144, 2>>,
      <<160, 2>>, <<161, 3>>, <<162, 4>>, <<163, 5>>, <<164, 6>>, <<241, 7>>,
      <<243, 2>>, <<244, 6>>, <<250, 6>>, <<253, 2>>, <<254, 0>> }

RECURSIVE Pushes(_, _)
Pushes(j, v) == IF j = 0 THEN <<>> ELSE Push1(v) \o Pushes(j - 1, v)

\* j pushes of v and then the opcode, for every j up to the opcode's arity
ArityProgs ==
    { Pushes(j, v) \o <<a[1]>> : a \in Arity, j \in 0..7, v \in 0..MaxValue } \
    { Pushes(j, v) \o <<a[1]>> : a \in {b \in Arity : b[2] < 7}, j \in 7..7, v \in 0..MaxValue }

JumpProgs ==
    { <<96, 3, 86, 91>>,            \* JUMP to the JUMPDEST at 3
      <<96, 1, 96, 5, 87, 91>>,     \* JUMPI taken to the JUMPDEST at 5
      <<96, 0, 96, 5, 87, 91>>,     \* JUMPI not taken
      <<96, 4, 86, 96, 91>>,        \* JUMP to a 0x5B inside PUSH data
      <<97, 1, 4, 86, 91, 88>>,     \* JUMP to a counter that does not fit usize
      <<96, 3, 88, 91, 88>>,        \* PC after a PUSH
      <<91, 96, 0, 86>>,            \* JUMPDEST; JUMP back to it
      <<91, 96, 1, 96, 0, 87>>,     \* JUMPDEST; JUMPI taken back to it
      <<96, 4, 86, 0, 91, 88>>,     \* PC reached through a JUMP
      <<96, 1, 96, 6, 87, 0, 91, 88>>,   \* PC reached through a taken JUMPI
      <<96, 0, 96, 6, 87, 88, 91, 88>>,  \* PC after a JUMPI that is not taken
      <<96, 0, 96, 9, 87, 88>>,     \* JUMPI not taken, to a counter past the code
      <<96, 0, 96, 1, 87, 88>>,     \* JUMPI not taken, to a counter inside PUSH data
      <<96, 0, 97, 1, 4, 87, 88>>,  \* JUMPI not taken, to a counter that does not fit usize
      <<96, 2, 96, 9, 87, 88>> }    \* JUMPI taken, to a counter past the code

\* code that ends in a PUSH with no data or too little data after pushing a word
TruncatedProgs == { <<96>>, <<96, 1, 96>>, <<96, 1, 97, 5>>, <<96, 1, 80>> }

\* SSTORE(key, value)
SStore(key, value) == Push1(value) \o Push1(key) \o <<85>>
\* SLOAD(key)
SLoad(key) == Push1(key) \o <<84>>

StorageKeys == {0, 1}
StorageValues == {0, 2}

\* two SSTOREs and an SLOAD over two keys
StorageProgs ==
    { SStore(k1, v1) \o SStore(k2, v2) \o SLoad(k3) :
        k1 \in StorageKeys, v1 \in StorageValues, k2 \in StorageKeys,
        v2 \in StorageValues, k3 \in StorageKeys }

\* CALLER; ADDRESS; CALLVALUE; SLOAD(1); SSTORE(0, 2)
ContextProg == <<51, 48, 52>> \o SLoad(1) \o SStore(0, 2)

\* MSTORE(0, 0xFFFF); RETURN(30, 2): the two low bytes of the word
ReturnTwoSnip == <<97, 255, 255>> \o Push1(0) \o <<82>> \o Push1(2) \o Push1(30) \o <<243>>

\* MSTORE(0, 0x0102); RETURN(30, 2): two different bytes
ReturnOneTwoSnip == <<97, 1, 2>> \o Push1(0) \o <<82>> \o Push1(2) \o Push1(30) \o <<243>>

\* RETURNDATACOPY(destOffset, offset, size)
ReturnDataCopySnip(dest_offset, offset, size) ==
    Push1(size) \o Push1(offset) \o Push1(dest_offset) \o <<62>>

\* RETURNDATACOPY before any call, and after a call that returned 0 or 2 bytes
ReturnDataProgs ==
    { pre \o ReturnDataCopySnip(0, offset, size) :
        pre \in {<<>>, CallSnip(ContractB, 0)},
        offset \in {0, 1, 255}, size \in {0, 1, 2, 3} }

\* MSTORE(0, 0xFFFF); REVERT(30, 2)
RevertTwoSnip == <<97, 255, 255>> \o Push1(0) \o <<82>> \o Push1(2) \o Push1(30) \o <<253>>

\* the three call opcodes without value
PlainCalls(addr) == {CallSnip(addr, 0), DelegatecallSnip(addr), StaticcallSnip(addr)}

\* RETURNDATASIZE before any call, after one call and after two calls
ReturnDataSizeProgs ==
    {<<61>>}
    \cup { <<61>> \o call1 \o <<61>> \o call2 \o <<61>> :
             call1 \in PlainCalls(ContractB), call2 \in PlainCalls(ContractC) }

\* LOG1(offset 0, size 0, topic)
Log1Snip(topic) == Push1(topic) \o Push1(0) \o Push1(0) \o <<161>>

\* a log, a call, a log
LogCallLog(t1, call, t2) == Log1Snip(t1) \o call \o Log1Snip(t2)

\* CALL or DELEGATECALL: the calls whose child may log
LoggingCalls(addr) == {CallSnip(addr, 0), DelegatecallSnip(addr)}

\* a call opcode (CALL with value 0) with its memory windows
CallWindow(op, addr, args_offset, args_size, ret_offset, ret_size) ==
    Push1(ret_size) \o Push1(ret_offset) \o Push1(args_size) \o Push1(args_offset)
        \o (IF op = 241 THEN Push1(0) ELSE <<>>) \o Push1(addr) \o Push1(0) \o <<op>>

\* PUSH1 9; MSTORE(0, 0xFFFF); a call reading memory[30, 34) and returning
\* into a window; LOG0
WindowProgs ==
    { Push1(9) \o <<97, 255, 255>> \o Push1(0) \o <<82>>
        \o CallWindow(op, ContractB, 30, 4, w[1], w[2]) \o Log0Snip :
        op \in {241, 244, 250}, w \in {<<0, 0>>, <<31, 2>>, <<70, 1>>} }

\* pushes of the topics 10 + n, .., 11: topic 11 is pushed last
RECURSIVE TopicPushes(_)
TopicPushes(n) == IF n = 0 THEN <<>> ELSE Push1(10 + n) \o TopicPushes(n - 1)

\* PUSH1 9; MSTORE(0, 0x0102); LOGn(offset 30, size 3, topics 11, 12, ..)
LogWindowSnip(n) ==
    Push1(9) \o <<97, 1, 2>> \o Push1(0) \o <<82>>
        \o TopicPushes(n) \o Push1(3) \o Push1(30) \o <<160 + n>>

Config(a, b, c, v) == [codeA |-> a, codeB |-> b, codeC |-> c, value |-> v]

Configs ==
    \* one frame
    { Config(a, <<>>, <<>>, v) :
        a \in LocalProgs \cup ArityProgs \cup JumpProgs \cup TruncatedProgs,
        v \in 0..MaxValue }
    \cup
    \* A calls B
    { Config(pre \o call \o post, b, <<>>, v) :
        pre \in {<<>>, Log0Snip}, call \in CallSnips(ContractB),
        post \in {<<>>, RevertSnip}, b \in LocalProgs, v \in 0..MaxValue }
    \cup
    \* A calls B statically, B runs one opcode
    { Config(StaticcallSnip(ContractB), b, <<>>, v) : b \in ArityProgs, v \in 0..MaxValue }
    \cup
    \* A calls B, B calls C
    { Config(callB, pre \o callC \o post, c, v) :
        callB \in CallSnips(ContractB), pre \in {<<>>, Log0Snip},
        callC \in CallSnips(ContractC), post \in {<<>>, RevertSnip},
        c \in LocalProgs, v \in {0} }
    \cup
    \* storage of one frame
    { Config(a, <<>>, <<>>, 0) : a \in StorageProgs }
    \cup
    \* the message a child frame sees: A calls B, or A calls B and B delegates to C
    { Config(pre \o call, ContextProg, <<>>, v) :
        pre \in {<<>>, SStoreSnip}, call \in CallSnips(ContractB), v \in 0..MaxValue }
    \cup
    { Config(call, SStoreSnip \o DelegatecallSnip(ContractC), ContextProg, v) :
        call \in CallSnips(ContractB), v \in 0..MaxValue }
    \cup
    \* the return data of the last call
    { Config(a, b, <<>>, 0) :
        a \in ReturnDataProgs, b \in {<<>>, ReturnTwoSnip, ReturnOneTwoSnip, RevertSnip} }
    \cup
    \* logs around nested calls: A logs 1, calls B, logs 2; B logs 3, calls C, logs 4;
    \* C logs 5 and 6
    { Config(LogCallLog(1, callB, 2), LogCallLog(3, callC, 4) \o endB,
             Log1Snip(5) \o Log1Snip(6) \o endC, 0) :
        callB \in LoggingCalls(ContractB), callC \in LoggingCalls(ContractC),
        endB \in {<<>>, RevertSnip}, endC \in {<<>>, RevertSnip} }
    \cup
    \* the size of the return data: B returns, reverts or fails, C looks at its own buffer
    { Config(a, b, c, 0) :
        a \in ReturnDataSizeProgs, b \in {ReturnTwoSnip, RevertTwoSnip, InvalidSnip},
        c \in {<<61>>, <<61>> \o ReturnSnip} }
    \cup
    \* LOG0 .. LOG4 with topics and data, at the top level and in a called frame
    { Config(LogWindowSnip(n), <<>>, <<>>, 0) : n \in 0..4 }
    \cup
    { Config(call, LogWindowSnip(n), <<>>, 0) :
        call \in PlainCalls(ContractB), n \in {0, 2, 4} }
    \cup
    \* the frame of the caller around a call: B logs and returns, reverts or fails
    { Config(a, b, <<>>, 0) :
        a \in WindowProgs,
        b \in {<<>>, Log0Snip \o ReturnTwoSnip, Log0Snip \o RevertTwoSnip, InvalidSnip} }

\* main.rs: "Give from ETH", the code to execute is the `to` account's code,
\* the other accounts come from the test's state
InitialState(cfg) ==
    (Sender :> AccountNew(<<cfg.value>>, <<>>))
        @@ (ContractA :> AccountNew(<<>>, <<cfg.codeA>>))
        @@ (ContractB :> AccountNew(<<>>, <<cfg.codeB>>))
        @@ (ContractC :> AccountNew(<<>>, <<cfg.codeC>>))

IdleCode == CodeNew(<<>>)
NoJump == [op |-> "none", counter |-> 0, ok |-> FALSE, before |-> 0, pos |-> 0]
NoUnit == <<>>
NoOp == [op |-> "none"]

Init ==
    /\ \E cfg \in Configs :
         /\ state = InitialState(cfg)
         /\ txresult = [value |-> cfg.value]
    /\ frames = <<>>
    /\ phase = "init"
    /\ ev = NoEvent
    /\ code = IdleCode
    /\ jres = NoJump
    /\ unit = NoUnit
    /\ ures = NoOp

\* Transaction::data: empty (Transaction::default) unless the transaction
\* was built with data
TransactionData == IF "data" \in DOMAIN txresult THEN txresult.data ELSE <<>>

\* Transaction::process: Message::new, Message::process, EVM::new and the
\* head of EVM::execute
TransactionProcess ==
    /\ phase = "init"
    /\ LET message == MessageCall(Sender, ContractA, 0, txresult.value, TransactionData)
           h == ExecuteHead(EVMNew(state, message), state)
       IN  /\ ~h.panic
           /\ frames' = <<h.frame>>
           /\ state' = h.state
    /\ phase' = "run"
    /\ ev' = [NoEvent EXCEPT !.op = "PROCESS", !.state = state]
    /\ UNCHANGED <<txresult, code, jres, unit, ures>>

Next ==
    \/ TransactionProcess
    \/ STOP \/ ADD \/ POP \/ MLOAD \/ MSTORE \/ SLOAD \/ SSTORE
    \/ JUMP \/ JUMPI \/ PC \/ JUMPDEST \/ PUSH \/ DUP \/ SWAP \/ LOG
    \/ CALL \/ DELEGATECALL \/ STATICCALL \/ RETURN \/ REVERT \/ INVALID
    \/ ADDRESS \/ CALLER \/ CALLVALUE \/ RETURNDATASIZE \/ RETURNDATACOPY
    \/ CallReturn \/ DelegatecallReturn \/ StaticcallReturn \/ TransactionEnd

Spec == Init /\ [][Next]_vars

\* The transactions of one frame, with the jumps
InitLoop ==
    /\ \E a \in LocalProgs \cup JumpProgs, v \in 0..MaxValue :
         /\ state = InitialState(Config(a, <<>>, <<>>, v))
         /\ txresult = [value |-> v]
    /\ frames = <<>>
    /\ phase = "init"
    /\ ev = NoEvent
    /\ code = IdleCode
    /\ jres = NoJump
    /\ unit = NoUnit
    /\ ures = NoOp

\* `while let Some(_) = iter.next() {}` and the return of EVM::execute
LoopSteps ==
    \/ STOP \/ POP \/ SSTORE \/ JUMP \/ JUMPI \/ PC \/ JUMPDEST \/ PUSH \/ LOG
    \/ RETURN \/ REVERT \/ INVALID
    \/ TransactionEnd

NextLoop == TransactionProcess \/ LoopSteps

\* one synchronous call on one thread: once Transaction::process is called,
\* the step loop takes its next step as long as there is one
SpecLoop == InitLoop /\ [][NextLoop]_vars /\ WF_vars(LoopSteps)

-----------------------------------------------------------------------------
(* CALLDATALOAD: transactions with data to a contract that pushes an index  *)
(* and loads the word there                                                 *)

\* PUSH3 of a word
PushWord(w) == <<98, (w \div 65536) % 256, (w \div 256) % 256, w % 256>>

\* indexes inside the data, at its end, around usize::MAX and at the top of
\* the word
CalldataIndexes ==
    {0, 1, 2, 3, UsizeMax - 1, UsizeMax, UsizeMax + 1, WordMod - 2, WordMod - 1}

CalldataInputs ==
    { <<>>, <<7>>, <<1, 2>>, <<0, 255>>, <<255, 0, 1>>, <<1, 2, 3, 4>> }

InitCalldata ==
    /\ \E i \in CalldataIndexes, data \in CalldataInputs, lone \in BOOLEAN :
         /\ state = InitialState(Config(IF lone THEN <<53>> ELSE PushWord(i) \o <<53>>,
                                        <<>>, <<>>, 0))
         /\ txresult = [value |-> 0, data |-> data]
    /\ frames = <<>>
    /\ phase = "init"
    /\ ev = NoEvent
    /\ code = IdleCode
    /\ jres = NoJump
    /\ unit = NoUnit
    /\ ures = NoOp

NextCalldata ==
    \/ TransactionProcess
    \/ PUSH \/ CALLDATALOAD \/ STOP \/ TransactionEnd

SpecCalldata == InitCalldata /\ [][NextCalldata]_vars

-----------------------------------------------------------------------------
(* The arithmetic opcodes: transactions to a contract that pushes its       *)
(* operands and runs one of them                                            *)

\* the small words, the words around the sign bit, and words with one byte set
ArithValues ==
    {0, 1, 2, 3, 7, 127, 128, 255, 256, WordMod \div 2 - 1, WordMod \div 2, WordMod \div 2 + 1,
     WordMod - 7, WordMod - 2, WordMod - 1}

\* byte indexes and shifts: inside the word, at its end and past it
ArithSizes == {0, 1, 7, 8, WordBytes - 1, WordBytes, WordBits - 1, WordBits, WordMod - 1}

\* the operands are pushed last first: the first operand is on top
ArithProgs ==
    { PushWord(b) \o PushWord(a) \o <<op>> :
        a \in ArithValues, b \in ArithValues, op \in {4, 5, 6, 7} }
    \cup { PushWord(n) \o PushWord(b) \o PushWord(a) \o <<op>> :
             a \in {1, 3, WordMod - 1}, b \in {0, 2, WordMod - 1}, n \in {0, 2}, op \in {8, 9} }
    \cup { PushWord(x) \o PushWord(k) \o <<op>> :
             k \in ArithSizes, x \in ArithValues, op \in {11, 29} }
    \cup { <<op>> : op \in {4, 5, 6, 7, 8, 9, 11, 29} }

InitArith ==
    /\ \E a \in ArithProgs :
         /\ state = InitialState(Config(a, <<>>, <<>>, 0))
         /\ txresult = [value |-> 0]
    /\ frames = <<>>
    /\ phase = "init"
    /\ ev = NoEvent
    /\ code = IdleCode
    /\ jres = NoJump
    /\ unit = NoUnit
    /\ ures = NoOp

NextArith ==
    \/ TransactionProcess
    \/ PUSH \/ DIV \/ SDIV \/ MOD \/ SMOD \/ ADDMOD \/ MULMOD \/ SIGNEXTEND \/ SAR
    \/ STOP \/ TransactionEnd

SpecArith == InitArith /\ [][NextArith]_vars

-----------------------------------------------------------------------------
(* A contract that calls itself: the same step function, followed one frame *)
(* past the call depth of the EVM, or until the native stack is used up     *)

\* the EVM's call-depth convention, scaled (1024 frames in the EVM)
CallDepthLimit == 16

\* the room of the native stack in frames: it depends on the size of the stack
\* the process is given, below or above the call depth
NativeFrames == {CallDepthLimit \div 2, CallDepthLimit + 1}

\* the contract calls its own address with CALL, DELEGATECALL or STATICCALL
SelfCallProgs == PlainCalls(ContractA)

InitDepth ==
    /\ \E a \in SelfCallProgs :
         /\ state = InitialState(Config(a, <<>>, <<>>, 0))
         /\ txresult = [value |-> 0]
    /\ frames = <<>>
    /\ phase = "init"
    /\ ev = NoEvent
    /\ code = IdleCode
    /\ jres = NoJump
    /\ \E n \in NativeFrames : unit = [frames |-> n]
    /\ ures = NoOp

NextDepth == TransactionProcess \/ PUSH \/ CALL \/ DELEGATECALL \/ STATICCALL

SpecDepth == InitDepth /\ [][NextDepth]_vars

-----------------------------------------------------------------------------
(* The stand-alone Code: every short bytecode, walked by next() and        *)
(* jump_to(counter) in any order                                            *)

\* STOP, JUMP, JUMPDEST, PUSH1, PUSH2
\* STOP, an unassigned byte, JUMP, JUMPDEST, PUSH1, PUSH2
CodeAlphabet == {0, 12, 86, 91, 96, 97}

ByteStrings == UNION { [1..n -> CodeAlphabet] : n \in 0..MaxCodeLen }

\* counters inside the code, just past it, past usize, and the largest word
Counters ==
    (0..(MaxCodeLen + 1))
        \cup { UsizeMax + 1 + k : k \in 0..MaxCodeLen }
        \cup { WordMod - 1 }

InitCode ==
    /\ code \in { CodeNew(b) : b \in ByteStrings }
    /\ jres = NoJump
    /\ unit = NoUnit
    /\ ures = NoOp
    /\ state = <<>>
    /\ frames = <<>>
    /\ phase = "code"
    /\ txresult = None
    /\ ev = NoEvent

\* Iterator::next for Code, up to the first read past the end
CodeIterNext ==
    /\ code.pc <= Len(code.bytecode)
    /\ jres' = [op |-> "next", counter |-> 0, ok |-> TRUE, before |-> code.pc,
                pos |-> SkipAbsent(code, code.pc)]
    /\ code' = CodeNext(code)
    /\ UNCHANGED <<state, frames, phase, txresult, ev, unit, ures>>

\* Code::jump_to(counter)
CodeJumpTo ==
    /\ \E counter \in Counters :
         LET r == jump_to(code, counter)
         IN  /\ code' = r.code
             /\ jres' = [op |-> "jump_to", counter |-> counter, ok |-> r.ok,
                         before |-> code.pc, pos |-> 0]
    /\ UNCHANGED <<state, frames, phase, txresult, ev, unit, ures>>

NextCode == CodeIterNext \/ CodeJumpTo

SpecCode == InitCode /\ [][NextCode]_vars

-----------------------------------------------------------------------------
(* The stand-alone Stack: push, pop, dup and swap in any order, from       *)
(* stacks that are empty, nearly empty, nearly full and full               *)

\* most operations applied to a stand-alone Stack or Memory
MaxUnitOps == 3

StackDepths == {0, 1, 2, StackLimit - 2, StackLimit - 1, StackLimit}

\* a stack that d pushes built, neighbours distinct
FilledStack(d, f) == [i \in 1..d |-> (i + f) % 3]

InitStack ==
    /\ unit \in { FilledStack(d, f) : d \in StackDepths, f \in 0..1 }
    /\ ures = [op |-> "new", n |-> 0, arg |-> 0, before |-> <<>>,
               ok |-> TRUE, err |-> "none", vals |-> <<>>]
    /\ state = <<>>
    /\ frames = <<>>
    /\ phase = "stack"
    /\ txresult = None
    /\ ev = NoEvent
    /\ code = IdleCode
    /\ jres = NoJump

\* the record of an operation on the stand-alone stack
StackOp(name, arg, r) ==
    /\ ures.n < MaxUnitOps
    /\ unit' = r.stack
    /\ ures' = [op |-> name, n |-> ures.n + 1, arg |-> arg, before |-> unit,
                ok |-> r.ok, err |-> r.err, vals |-> r.vals]
    /\ UNCHANGED <<state, frames, phase, txresult, ev, code, jres>>

StackPush ==
    /\ phase = "stack"
    /\ \E w \in {0, WordMod - 1} : StackOp("push", w, push(unit, w))

StackPop ==
    /\ phase = "stack"
    /\ StackOp("pop", 0, pop(unit))

\* DUP1..DUP16 give n in 1..16
StackDup ==
    /\ phase = "stack"
    /\ \E n \in {1, 2, 16} : StackOp("dup", n, dup(unit, n))

\* SWAP1..SWAP16 give n in 1..16
StackSwap ==
    /\ phase = "stack"
    /\ \E n \in {1, 16} : StackOp("swap", n, swap(unit, n))

NextStack == StackPush \/ StackPop \/ StackDup \/ StackSwap

SpecStack == InitStack /\ [][NextStack]_vars

-----------------------------------------------------------------------------
(* execution/memory.rs: Memory { mem: Vec<u8> } with load, load_u256,      *)
(* store and store8 over word offsets.  An operation ends "ok", or the     *)
(* process ends in a panic (a failed expect, a slice index out of range,   *)
(* an arithmetic overflow of a build with overflow checks) or in an abort  *)
(* (a Vec that cannot grow)                                                *)

\* Vec: a capacity above isize::MAX is refused
AllocLimit == UsizeMax \div 2

MemOk(mem, bytes) == [outcome |-> "ok", mem |-> mem, bytes |-> bytes]
MemDead(how, mem) == [outcome |-> how, mem |-> mem, bytes |-> <<>>]

\* Memory::expand_mem: one more page of zeros
expand_mem(mem) == mem \o Zeros(PageSize)

\* while self.size() < max { self.expand_mem()?; }
RECURSIVE ExpandWhile(_, _)
ExpandWhile(mem, max) ==
    IF ~(Len(mem) < max) THEN MemOk(mem, <<>>)
    ELSE IF Len(mem) + PageSize > AllocLimit THEN MemDead("abort", mem)
    ELSE ExpandWhile(expand_mem(mem), max)

\* can the slice mem[from..=to] be taken
RangeInclusiveOk(mem, from, to) ==
    /\ to < UsizeMax
    /\ from <= to + 1
    /\ to + 1 <= Len(mem)

\* Memory::load(offset, size)
load(mem, offset, size, build) ==
    LET o == Min(offset, UsizeMax)
        sz == Min(size, UsizeMax)
        sum == UsizeArith(o + sz, build)
        max == UsizeArith(sum.v - 1, build)
        g == ExpandWhile(mem, max.v)
    IN  IF ~sum.ok \/ ~max.ok THEN MemDead("panic", mem)
        ELSE IF g.outcome # "ok" THEN g
        ELSE IF ~RangeInclusiveOk(g.mem, o, max.v) THEN MemDead("panic", g.mem)
        ELSE MemOk(g.mem, SubSeq(g.mem, o + 1, max.v + 1))

\* Memory::load_u256(offset)
load_u256(mem, offset, build) == load(mem, offset, (PageSize - 1) + 1, build)

\* Memory::store(offset, value)
store(mem, offset, value, build) ==
    LET o == saturating_to(offset)
        max == UsizeArith(o + (PageSize - 1), build)
        g == ExpandWhile(mem, max.v)
    IN  IF ~max.ok THEN MemDead("panic", mem)
        ELSE IF g.outcome # "ok" THEN g
        ELSE IF ~RangeInclusiveOk(g.mem, o, max.v) \/ max.v - o + 1 # PageSize
        THEN MemDead("panic", g.mem)
        ELSE MemOk([i \in 1..Len(g.mem) |->
                        IF i > o /\ i <= max.v + 1 THEN ToBeBytes(value)[i - o]
                        ELSE g.mem[i]], <<>>)

\* Memory::store8(offset, value)
store8(mem, offset, value, build) ==
    LET o == saturating_to(offset)
        max == UsizeArith(o + 1, build)
        g == ExpandWhile(mem, max.v)
    IN  IF ~max.ok THEN MemDead("panic", mem)
        ELSE IF g.outcome # "ok" THEN g
        ELSE IF ~(o < Len(g.mem)) THEN MemDead("panic", g.mem)
        ELSE MemOk([g.mem EXCEPT ![o + 1] = ToBeBytes(value)[PageSize]], <<>>)

\* offsets at, next to and past a page boundary, and the largest word
MemOffsets == {0, 1, PageSize, PageSize + 1, WordMod - 1}
MemSizes == {0, 1, PageSize}
MemValues == {1, WordMod - 1}

\* Memory::new()
InitMemory ==
    /\ unit = <<>>
    /\ ures = [op |-> "new", n |-> 0, offset |-> 0, size |-> 0, value |-> 0,
               before |-> <<>>, outcome |-> "ok", bytes |-> <<>>, touched |-> 0,
               prev |-> NoOp]
    /\ state = <<>>
    /\ frames = <<>>
    /\ phase = "memory"
    /\ txresult = None
    /\ ev = NoEvent
    /\ code = IdleCode
    /\ jres = NoJump

\* the record of an operation on the stand-alone memory: touched is one past
\* the last byte that a completed access of at least one byte has covered
MemoryOp(name, offset, size, value, r) ==
    /\ ures.outcome = "ok"
    /\ ures.n < MaxUnitOps
    /\ unit' = r.mem
    /\ ures' = [op |-> name, n |-> ures.n + 1, offset |-> offset, size |-> size,
                value |-> value, before |-> unit, outcome |-> r.outcome,
                bytes |-> r.bytes,
                touched |-> IF r.outcome = "ok" /\ size > 0
                                /\ saturating_to(offset) + size > ures.touched
                            THEN saturating_to(offset) + size ELSE ures.touched,
                prev |-> [op |-> ures.op, offset |-> ures.offset,
                          value |-> ures.value]]
    /\ UNCHANGED <<state, frames, phase, txresult, ev, code, jres>>

MemoryLoad ==
    /\ phase = "memory"
    /\ \E offset \in MemOffsets, size \in MemSizes, build \in Builds :
        MemoryOp("load", offset, size, 0, load(unit, offset, size, build))

MemoryLoadU256 ==
    /\ phase = "memory"
    /\ \E offset \in MemOffsets, build \in Builds :
        LET r == load_u256(unit, offset, build)
        IN  MemoryOp("load_u256", offset, PageSize, BigEndian(r.bytes), r)

MemoryStore ==
    /\ phase = "memory"
    /\ \E offset \in MemOffsets, value \in MemValues, build \in Builds :
        MemoryOp("store", offset, PageSize, value, store(unit, offset, value, build))

MemoryStore8 ==
    /\ phase = "memory"
    /\ \E offset \in MemOffsets, value \in MemValues, build \in Builds :
        MemoryOp("store8", offset, 1, value, store8(unit, offset, value, build))

NextMemory == MemoryLoad \/ MemoryLoadU256 \/ MemoryStore \/ MemoryStore8

SpecMemory == InitMemory /\ [][NextMemory]_vars

-----------------------------------------------------------------------------
(* Properties *)

ReturnOps == {"CALL_RETURN", "DELEGATECALL_RETURN", "STATICCALL_RETURN"}
EndOps == ReturnOps \cup {"TRANSACTION_END"}

\* what a world state holds: every account's balance and storage
View(s, accounts) ==
    [a \in accounts |-> <<get_account(s, a).balance, get_account(s, a).storage>>]

SameWorld(s, t) ==
    View(s, DOMAIN s \cup DOMAIN t) = View(t, DOMAIN s \cup DOMAIN t)

\* the frame that just ended did so in error
EndedInError == ev.op \in EndOps /\ ~ev.frame.result.ok

C2_FailedChildLogsNotMerged ==
    /\ (ev.op \in {"CALL", "DELEGATECALL"} /\ Top.result = None /\ Depth > 1)
            => Parent.logs = ev.frame.logs
    /\ (ev.op \in {"CALL_RETURN", "DELEGATECALL_RETURN"} /\ ~ev.frame.result.ok)
            => Top.logs = ev.parent.logs

\* a child that emitted or inherited logs ended in error
C2_Witness ==
    /\ ev.op \in {"CALL_RETURN", "DELEGATECALL_RETURN"}
    /\ ~ev.frame.result.ok
    /\ ev.frame.logs # <<>>
    /\ Top.logs = ev.parent.logs

\* C3: the result of a frame that ended in error carries no logs, for the
\* transaction's result and for the result a parent keeps of its child.
C3_FailedResultHasNoLogs ==
    /\ (phase = "done" /\ ~txresult.success) => txresult.logs = <<>>
    /\ \A i \in DOMAIN frames :
         (frames[i].last_inner_call # None /\ ~frames[i].last_inner_call.status)
            => frames[i].last_inner_call.logs = <<>>

\* C4: in a Staticcall frame SSTORE and LOGn halt the frame with
\* StateModificationDisallowed, and change neither the storage, the logs, the
\* memory nor the stack (the check precedes every pop).
C4_StaticStoreAndLogFail ==
    (ev.op \in {"SSTORE", "LOG"} /\ ev.frame.message.kind = "Staticcall")
        => /\ Top.result = ResultErr("StateModificationDisallowed")
           /\ Top.stack = ev.frame.stack
           /\ Top.logs = ev.frame.logs
           /\ Top.memory = ev.frame.memory
           /\ state = ev.state

\* SSTORE with both arguments on the stack was refused in a Staticcall frame
C4_Witness ==
    /\ ev.op = "SSTORE"
    /\ ev.frame.message.kind = "Staticcall"
    /\ Len(ev.frame.stack) >= 2
    /\ Top.result = ResultErr("StateModificationDisallowed")

\* is some frame the child of a STATICCALL opcode (and so everything above it
\* nested in a static frame)
InStaticCall(fs) ==
    \E i \in DOMAIN fs : fs[i].pending # None /\ fs[i].pending.op = "STATICCALL"

\* every log held by a live frame
RECURSIVE AllLogs(_)
AllLogs(fs) == IF fs = <<>> THEN <<>> ELSE Head(fs).logs \o AllLogs(Tail(fs))

\* C5: while a frame entered by STATICCALL is live, no step of it or of any
\* frame nested below it changes the world state or the logs.
C5_StaticSubtreeChangesNothing ==
    [][InStaticCall(frames) => (state' = state /\ AllLogs(frames') = AllLogs(frames))]_vars

\* a frame two levels below a STATICCALL was refused an SSTORE
C5_Witness ==
    /\ Depth >= 3
    /\ frames[Depth - 2].pending # None
    /\ frames[Depth - 2].pending.op = "STATICCALL"
    /\ ev.op = "SSTORE"
    /\ Len(ev.frame.stack) >= 2
    /\ Top.result = ResultErr("StateModificationDisallowed")

\* C6: in a Staticcall frame a CALL whose value argument is 0 is not refused:
\* it enters the child frame.
C6_StaticCallZeroValueRuns ==
    ( /\ ev.op = "CALL"
      /\ ev.frame.message.kind = "Staticcall"
      /\ Len(ev.frame.stack) >= 7
      /\ ev.frame.stack[Len(ev.frame.stack) - 2] = 0 )
        => Top.result = None

C8_ChildFailureDoesNotHaltParent ==
    ev.op \in ReturnOps
        => /\ Top.result = None
           /\ Top.pending = None
           /\ Top.stack = Append(ev.parent.stack, IF ev.frame.result.ok THEN 1 ELSE 0)
           /\ Top.code = ev.parent.code

\* a child ended on an error that is not a REVERT and its parent went on with 0
C8_Witness ==
    /\ ev.op \in ReturnOps
    /\ ~ev.frame.result.ok
    /\ ev.frame.result.err \in {"NotEnoughValuesOnStack", "InvalidJumpdest",
                                "StateModificationDisallowed"}
    /\ Top.result = None
    /\ Top.stack[Len(Top.stack)] = 0

\* the length of the immediate data of the opcode byte b
ImmediateLen(b) == IF b >= 96 /\ b <= 127 THEN b - 95 ELSE 0

\* the positions of a bytecode at which an opcode begins
RECURSIVE OpcodeStartsFrom(_, _)
OpcodeStartsFrom(bytecode, p) ==
    IF p >= Len(bytecode) THEN {}
    ELSE {p} \cup OpcodeStartsFrom(bytecode, p + 1 + ImmediateLen(bytecode[p + 1]))

ValidJumpdest(bytecode, counter) ==
    /\ counter < Len(bytecode)
    /\ counter \in OpcodeStartsFrom(bytecode, 0)
    /\ bytecode[counter + 1] = 91

\* C9: jump_to(counter) succeeds only on a position of the bytecode that
\* begins an opcode and holds JUMPDEST, and then pc is that position; in
\* every other case it fails and pc is unchanged; next() never returns an
\* opcode decoded from PUSH data.
C9_JumpOnlyToJumpdest ==
    /\ (jres.op = "jump_to" /\ jres.ok)
            => (ValidJumpdest(code.bytecode, jres.counter) /\ code.pc = jres.counter)
    /\ (jres.op = "jump_to" /\ ~ValidJumpdest(code.bytecode, jres.counter))
            => (~jres.ok /\ code.pc = jres.before)
    /\ (jres.op = "next" /\ jres.pos < Len(code.bytecode))
            => jres.pos \in OpcodeStartsFrom(code.bytecode, 0)

\* a jump to a 0x5B byte that is PUSH data was refused
C9_Witness ==
    /\ jres.op = "jump_to"
    /\ ~jres.ok
    /\ jres.counter < Len(code.bytecode)
    /\ code.bytecode[jres.counter + 1] = 91
    /\ code.pc = jres.before

\* the number of stack arguments the handler of an opcode pops
ArgsOf(o) ==
    CASE o.op \in {"POP", "MLOAD", "SLOAD", "JUMP"} -> 1
      [] o.op \in {"ADD", "MSTORE", "SSTORE", "JUMPI", "RETURN", "REVERT"} -> 2
      [] o.op = "DUP" -> o.n
      [] o.op = "SWAP" -> o.n + 1
      [] o.op = "LOG" -> o.n + 2
      [] o.op = "CALL" -> 7
      [] o.op \in {"DELEGATECALL", "STATICCALL"} -> 6
      [] OTHER -> 0

OpcodeOps ==
    {"STOP", "ADD", "POP", "MLOAD", "MSTORE", "SLOAD", "SSTORE", "JUMP", "JUMPI",
     "PC", "JUMPDEST", "PUSH", "DUP", "SWAP", "LOG", "CALL", "DELEGATECALL",
     "STATICCALL", "RETURN", "REVERT", "INVALID"}

\* C10: an opcode run on a stack with fewer words than it needs fails with
\* NotEnoughValuesOnStack and leaves the stack as it was.
C10_UnderflowLeavesStack ==
    (ev.op \in OpcodeOps
        /\ Len(ev.frame.stack) < ArgsOf(CodeNextOpcode(ev.frame.code)))
        => /\ Top.result = ResultErr("NotEnoughValuesOnStack")
           /\ Top.stack = ev.frame.stack

\* C11: the depth of a stack is always between 0 and 1024; push and dup on a
\* stack of 1024 words fail with StackOverflow and leave the stack as it was;
\* push on a stack of fewer words succeeds and adds the word on top.
C11_StackDepthBounded ==
    /\ Len(unit) \in 0..StackLimit
    /\ (ures.op \in {"push", "dup"} /\ Len(ures.before) = StackLimit)
            => (~ures.ok /\ ures.err = "StackOverflow" /\ unit = ures.before)
    /\ (ures.op = "push" /\ Len(ures.before) < StackLimit)
            => (ures.ok /\ unit = Append(ures.before, ures.arg))
    /\ (ures.op = "dup" /\ Len(ures.before) < StackLimit /\ Len(ures.before) >= ures.arg)
            => (ures.ok /\ unit = Append(ures.before,
                                         ures.before[Len(ures.before) + 1 - ures.arg]))

\* a push on 1023 words succeeded and the next push or dup was refused
C11_Witness ==
    /\ ures.op \in {"push", "dup"}
    /\ ures.n >= 2
    /\ Len(ures.before) = StackLimit
    /\ ures.err = "StackOverflow"
    /\ unit = ures.before

MemoryOps == {"load", "load_u256", "store", "store8"}

\* the smallest multiple of 32 that is at least n
PageCeil(n) == ((n + PageSize - 1) \div PageSize) * PageSize

\* C12: every memory operation (offset, size) completes; a load returns size
\* bytes; afterwards the length is at least offset + size and a multiple of
\* 32, and the bytes the operation grew the memory by and did not write are 0.
C12_MemoryOpCompletes ==
    ures.op \in MemoryOps
        => /\ ures.outcome = "ok"
           /\ ures.op \in {"load", "load_u256"} => Len(ures.bytes) = ures.size
           /\ Len(unit) >= saturating_to(ures.offset) + ures.size
           /\ Len(unit) % PageSize = 0
           /\ \A i \in (Len(ures.before) + 1)..Len(unit) :
                (i <= saturating_to(ures.offset)
                    \/ i > saturating_to(ures.offset) + ures.size) => unit[i] = 0

\* C13: after any completed access the length of the memory is the smallest
\* multiple of 32 that covers every byte touched so far; it never shrinks,
\* and an access of size 0 does not change it.
C13_MemorySizeIsExact ==
    (ures.op \in MemoryOps /\ ures.outcome = "ok")
        => /\ Len(unit) = PageCeil(ures.touched)
           /\ Len(unit) >= Len(ures.before)
           /\ ures.size = 0 => Len(unit) = Len(ures.before)

\* C14: store(o, v) completes and changes no byte outside [o, o + 32) other
\* than growing the memory with zeros, and load_u256(o) right after it
\* completes and returns v.
C14_StoreThenLoad ==
    /\ ures.op = "store"
        => /\ ures.outcome = "ok"
           /\ \A i \in 1..Len(unit) :
                (i <= saturating_to(ures.offset)
                    \/ i > saturating_to(ures.offset) + PageSize)
                    => unit[i] = (IF i <= Len(ures.before) THEN ures.before[i] ELSE 0)
    /\ (ures.op = "load_u256" /\ ures.prev.op = "store"
            /\ ures.prev.offset = ures.offset)
        => (ures.outcome = "ok" /\ ures.value = ures.prev.value)

StorageOf(s, a) == get_account(s, a).storage

\* C15: an SSTORE(k, v) that a frame may do and has the arguments for is done:
\* it leaves v at key k of the target's storage (no key k when v = 0) and
\* changes no other key and no other account; an SLOAD(k) pushes the value at
\* k of the target's storage, 0 when k is absent, which is the value the last
\* SSTORE to k of that account wrote.
C15_StorageRoundTrip ==
    /\ (ev.op = "SSTORE" /\ ~is_staticcall(ev.frame.message) /\ Len(ev.frame.stack) >= 2)
        => LET key == ev.frame.stack[Len(ev.frame.stack)]
               value == ev.frame.stack[Len(ev.frame.stack) - 1]
               t == ev.frame.message.target
               new == StorageOf(state, t)
               old == StorageOf(ev.state, t)
           IN  /\ Top.result = None
               /\ value = 0 => key \notin DOMAIN new
               /\ value # 0 => (key \in DOMAIN new /\ new[key] = value)
               /\ DOMAIN new \ {key} = DOMAIN old \ {key}
               /\ \A k \in DOMAIN new \ {key} : new[k] = old[k]
               /\ \A a \in (DOMAIN state \cup DOMAIN ev.state) \ {t} :
                    StorageOf(state, a) = StorageOf(ev.state, a)
    /\ (ev.op = "SLOAD" /\ Len(ev.frame.stack) >= 1)
        => LET key == ev.frame.stack[Len(ev.frame.stack)]
               t == ev.frame.message.target
               pushed == Top.stack[Len(Top.stack)]
           IN  /\ phase = "run"
               /\ Top.result = None
               /\ Len(Top.stack) = Len(ev.frame.stack)
               /\ key \notin DOMAIN StorageOf(state, t) => pushed = 0
               /\ <<t, key>> \in DOMAIN ev.written => pushed = ev.written[<<t, key>>]
               /\ <<t, key>> \notin DOMAIN ev.written => pushed = 0

\* an SLOAD pushed the nonzero value an SSTORE wrote, with another key erased
\* by an SSTORE of 0 in between
C15_Witness ==
    /\ ev.op = "SLOAD"
    /\ Top.result = None
    /\ Top.stack[Len(Top.stack)] = 2
    /\ \E p \in DOMAIN ev.written :
         /\ ev.written[p] = 0
         /\ p[2] \notin DOMAIN StorageOf(state, p[1])

\* the step just taken was an opcode of the frame on top, which it halted
HaltedByOpcode ==
    /\ ev.op \notin EndOps \cup {"none", "PROCESS"}
    /\ phase = "run"
    /\ Top.result # None
    /\ ev.frame.result = None

\* C16: the opcode that halts a frame leaves a successful result exactly when
\* it is STOP (written, or read past the end of the code) or a RETURN with
\* its two arguments; REVERT, INVALID and every opcode error leave a failure;
\* and the status the caller gets (the word pushed, last_inner_call.status,
\* the transaction's success) is that result.
C16_StatusIffStopOrReturn ==
    /\ HaltedByOpcode
        => (Top.result.ok <=> (\/ ev.op = "STOP"
                               \/ ev.op = "RETURN" /\ Len(ev.frame.stack) >= 2))
    /\ (ev.op \in {"STOP", "REVERT", "INVALID", "RETURN"} /\ phase = "run")
        => Top.result # None
    /\ ev.op \in ReturnOps
        => /\ Top.last_inner_call.status = ev.frame.result.ok
           /\ Top.stack[Len(Top.stack)] = (IF ev.frame.result.ok THEN 1 ELSE 0)
    /\ ev.op = "TRANSACTION_END" => txresult.success = ev.frame.result.ok

\* a child that read past the end of its code gave its caller the status 1
C16_Witness ==
    /\ ev.op \in ReturnOps
    /\ ev.frame.result.ok
    /\ ev.frame.code.bytecode # <<>>
    /\ ev.frame.code.pc > Len(ev.frame.code.bytecode)
    /\ Top.last_inner_call.status
    /\ Top.stack[Len(Top.stack)] = 1

\* the frame on top is the child of a DELEGATECALL of the frame below it
InDelegateChild ==
    /\ phase = "run"
    /\ Depth > 1
    /\ Parent.pending # None
    /\ Parent.pending.op = "DELEGATECALL"

\* C17: in the child of a DELEGATECALL, CALLER, ADDRESS and CALLVALUE push the
\* parent's caller, target and value, SLOAD reads and SSTORE writes the
\* storage of the parent's target and of no other account, and the code run is
\* the code of the address the DELEGATECALL popped.
C17_DelegatecallContext ==
    /\ (ev.op = "DELEGATECALL" /\ InDelegateChild /\ Top.code.pc = 0)
        => LET popped == AddressFrom(ev.frame.stack[Len(ev.frame.stack) - 1])
           IN  Top.code.bytecode = get_account(ev.state, popped).code
    /\ (InDelegateChild /\ ev.op = "CALLER")
        => Top.stack[Len(Top.stack)] = Parent.message.caller
    /\ (InDelegateChild /\ ev.op = "ADDRESS")
        => Top.stack[Len(Top.stack)] = Parent.message.target
    /\ (InDelegateChild /\ ev.op = "CALLVALUE")
        => Top.stack[Len(Top.stack)] = MessageValue(Parent.message)
    /\ (InDelegateChild /\ ev.op = "SLOAD" /\ Len(ev.frame.stack) >= 1)
        => LET key == ev.frame.stack[Len(ev.frame.stack)]
               st == StorageOf(state, Parent.message.target)
           IN  Top.stack[Len(Top.stack)] = (IF key \in DOMAIN st THEN st[key] ELSE 0)
    /\ (InDelegateChild /\ ev.op = "SSTORE" /\ Len(ev.frame.stack) >= 2)
        => LET key == ev.frame.stack[Len(ev.frame.stack)]
               value == ev.frame.stack[Len(ev.frame.stack) - 1]
               st == StorageOf(state, Parent.message.target)
           IN  /\ (IF value = 0 THEN key \notin DOMAIN st
                   ELSE key \in DOMAIN st /\ st[key] = value)
               /\ \A a \in (DOMAIN state \cup DOMAIN ev.state) \ {Parent.message.target} :
                    StorageOf(state, a) = StorageOf(ev.state, a)

\* a delegate run by a frame that was called with value read, with SLOAD, a
\* value that only the storage of the parent's target holds
C17_Witness ==
    /\ InDelegateChild
    /\ ev.op = "SLOAD"
    /\ Top.message.delegate # Parent.message.target
    /\ MessageValue(Parent.message) # 0
    /\ Top.stack[Len(Top.stack)] = 1
    /\ Top.stack[Len(Top.stack) - 1] = MessageValue(Parent.message)
    /\ Top.stack[Len(Top.stack) - 2] = Parent.message.target
    /\ Top.stack[Len(Top.stack) - 3] = Parent.message.caller
    /\ StorageOf(state, Top.message.delegate) = EmptyStorage

BalanceOf(s, a) == get_account(s, a).balance

\* the call opcode `name` has just entered its child frame
Entered(name) ==
    /\ ev.op = name
    /\ phase = "run"
    /\ Depth > 1
    /\ Parent.pending # None
    /\ Parent.pending.op = name
    /\ Top.code.pc = 0

\* C18: entering the child of a DELEGATECALL changes no balance, whatever the
\* value of the frame that executes it, and the child's CALLVALUE is the
\* parent's; entering the child of a STATICCALL changes no balance.
C18_DelegatecallTransfersNothing ==
    /\ Entered("DELEGATECALL")
        => /\ MessageValue(Top.message) = MessageValue(Parent.message)
           /\ \A a \in DOMAIN state \cup DOMAIN ev.state :
                BalanceOf(state, a) = BalanceOf(ev.state, a)
    /\ Entered("STATICCALL")
        => \A a \in DOMAIN state \cup DOMAIN ev.state :
                BalanceOf(state, a) = BalanceOf(ev.state, a)

RECURSIVE SumBalances(_, _)
SumBalances(s, accounts) ==
    IF accounts = {} THEN 0
    ELSE LET a == CHOOSE x \in accounts : TRUE
         IN  BalanceOf(s, a) + SumBalances(s, accounts \ {a})

TotalBalance(s) == SumBalances(s, DOMAIN s)

\* C19: a transfer of v (on entering the transaction's frame, or the child of
\* a CALL) adds v to the recipient's balance and takes v from the sender's
\* (the transaction's sender, the parent's target), and the sum of all
\* balances is the same after the transaction as before it.
C19_ValueIsConserved ==
    /\ (ev.op = "PROCESS" /\ phase = "run")
        => LET m == Top.message
           IN  /\ BalanceOf(state, m.target) = BalanceOf(ev.state, m.target) + m.value
               /\ BalanceOf(state, m.caller) = BalanceOf(ev.state, m.caller) - m.value
    /\ (Entered("CALL") /\ Top.message.caller # Top.message.target)
        => LET m == Top.message
           IN  /\ BalanceOf(state, m.target) = BalanceOf(ev.state, m.target) + m.value
               /\ BalanceOf(state, m.caller) = BalanceOf(ev.state, m.caller) - m.value
    /\ ev.op = "TRANSACTION_END"
        => TotalBalance(state) = TotalBalance(ev.frame.snapshot)

\* the return-data buffer of a frame: empty until a call of it has completed
ReturnDataOf(f) ==
    IF f.last_inner_call = None THEN <<>> ELSE f.last_inner_call.return_data

\* C20: a RETURNDATACOPY(destOffset, offset, size) with offset + size past the
\* end of the return-data buffer halts the frame with OffsetHigherThanSize and
\* leaves the memory as it was.
C20_ReturnDataCopyOutOfRange ==
    ( /\ ev.op = "RETURNDATACOPY"
      /\ Len(ev.frame.stack) >= 3
      /\ saturating_to(ev.frame.stack[Len(ev.frame.stack) - 1])
            + saturating_to(ev.frame.stack[Len(ev.frame.stack) - 2])
            > Len(ReturnDataOf(ev.frame)) )
        => /\ phase = "run"
           /\ Top.result = ResultErr("OffsetHigherThanSize")
           /\ Top.memory = ev.frame.memory

\* C21: RETURNDATASIZE pushes 0 when no sub-call of the frame has completed
\* and otherwise the length of the return data of the sub-call that completed
\* last, failed or not: the buffer of a frame is set when a sub-call of it
\* returns, to the bytes that sub-call returned, no other step changes it, and
\* a frame that is entered starts without one
C21_ReturnDataSize ==
    [][ /\ (ev'.op = "RETURNDATASIZE" /\ Top'.result = None)
            => Top'.stack[Len(Top'.stack)] = Len(ReturnDataOf(Top))
        /\ ev'.op \in ReturnOps
            => /\ Top'.last_inner_call # None
               /\ ReturnDataOf(Top') = ReturnData(Top)
        /\ \A i \in 1..Min(Depth, Depth') :
             ~(ev'.op \in ReturnOps /\ i = Depth')
                => frames'[i].last_inner_call = frames[i].last_inner_call
        /\ Depth' > Depth => Top'.last_inner_call = None ]_vars

\* after a sub-call that reverted with two bytes and one that returned one
\* byte, RETURNDATASIZE has pushed 1
C21_Witness ==
    /\ ev.op = "RETURNDATASIZE"
    /\ Depth = 1
    /\ Top.result = None
    /\ Top.stack = <<0, 0, 2, 1, 1>>
    /\ Top.last_inner_call.status

\* C22: at no point are more than 1024 frames nested, whatever the program,
\* a contract that calls itself included
C22_CallDepthBounded == Depth <= CallDepthLimit

\* C23: processing a transaction runs to completion for every bytecode, code
\* with backward jumps to a JUMPDEST included: a step loop that is entered is
\* left
C23_RunsToCompletion == (phase = "run") ~> (phase \in {"done", "panic"})

IsPrefix(s, t) == Len(s) <= Len(t) /\ SubSeq(t, 1, Len(s)) = s

\* the topics of a log list, one word per LOG1
Topics(logs) == [i \in 1..Len(logs) |-> logs[i].topics]

\* C24: the log list of a frame is in execution order across nesting. A LOG
\* appends to the end of the running frame's list; a successful sub-call's
\* logs are appended, in the child's order, to what the parent had logged
\* before the call opcode; no step takes a log away or puts one in
\* front; and while a sub-call runs, the frames below it do not move: the
\* parent's next opcode runs after the sub-call and its sub-calls are over
C24_LogsInExecutionOrder ==
    [][ /\ (ev'.op = "LOG" /\ Top'.result = None)
            => /\ Len(Top'.logs) = Len(Top.logs) + 1
               /\ IsPrefix(Top.logs, Top'.logs)
               /\ Top'.logs[Len(Top'.logs)].address = Top.message.target
        /\ (ev'.op \in ReturnOps /\ Top.result.ok)
            => Top'.logs = Parent.logs \o Top.logs
        /\ (ev'.op \in ReturnOps /\ ~Top.result.ok)
            => Top'.logs = Parent.logs
        /\ ev'.op \in ReturnOps => Top.result # None
        /\ \A i \in 1..Min(Depth, Depth') :
             /\ IsPrefix(frames[i].logs, frames'[i].logs)
             /\ (i < Depth /\ i < Depth') => frames'[i] = frames[i]
             /\ (i < Depth /\ frames'[i] # frames[i]) => ev'.op \in ReturnOps
        /\ Depth' > Depth => Top'.logs = <<>> ]_vars

\* A logs 1 and calls B; B logs 3 and calls C; C logs 5 and 6; B logs 4; A logs 2
C24_Witness ==
    /\ phase = "done"
    /\ Topics(txresult.logs) = << <<1>>, <<3>>, <<5>>, <<6>>, <<4>>, <<2>> >>

\* the k-th operand of the opcode just run (1 is the top of the stack before
\* it), the number of operands it found and the word it pushed
Operand(k) == ev.frame.stack[Len(ev.frame.stack) - k + 1]
Operands == Len(ev.frame.stack)
Pushed == Top.stack[Len(Top.stack)]

\* the opcode `name` has run and the frame goes on
Done(name) ==
    /\ ev.op = name
    /\ phase = "run"
    /\ Top.result = None

\* a word as a signed integer in two's complement, and back
Signed(w) == IF w >= WordMod \div 2 THEN w - WordMod ELSE w
ToWord(i) == IF i < 0 THEN i + WordMod ELSE i % WordMod
Magnitude(i) == IF i < 0 THEN 0 - i ELSE i

\* the quotient truncated toward zero
TruncDiv(x, y) ==
    LET q == Magnitude(x) \div Magnitude(y)
    IN  IF (x < 0) # (y < 0) THEN 0 - q ELSE q

\* C25: for b # 0, SDIV(a, b) is the signed quotient truncated toward zero,
\* in two's complement modulo the word: SDIV(MIN_INT, -1) = MIN_INT, and a
\* zero quotient of operands of opposite signs is 0
C25_SdivTruncates ==
    (Done("SDIV") /\ Operand(2) # 0)
        => Pushed = ToWord(TruncDiv(Signed(Operand(1)), Signed(Operand(2))))

\* SDIV(1, -2) has pushed 0
C25_Witness ==
    /\ Done("SDIV")
    /\ Operand(1) = 1
    /\ Operand(2) = WordMod - 2
    /\ Pushed = 0

\* C26: for b # 0, SMOD(a, b) is sign(a) * (|a| mod |b|) in two's complement
C26_SmodFollowsDividend ==
    (Done("SMOD") /\ Operand(2) # 0)
        => LET a == Signed(Operand(1))
               r == Magnitude(a) % Magnitude(Signed(Operand(2)))
           IN  Pushed = ToWord(IF a < 0 THEN 0 - r ELSE r)

\* C27: for b < 31 (the last byte index of the word), SIGNEXTEND(b, x) keeps
\* bits 0..8b+7 of x and makes every bit above equal to bit 8b+7; for a
\* larger b the result is x
C27_SignExtend ==
    Done("SIGNEXTEND")
        => LET b == Operand(1)
               x == Operand(2)
           IN  IF b >= WordBytes - 1 THEN Pushed = x
               ELSE LET low == x % Pow2(8 * (b + 1))
                    IN  Pushed = IF Bit(x, 8 * b + 7)
                                 THEN low + WordMod - Pow2(8 * (b + 1))
                                 ELSE low

\* floor(x / d) for d > 0
FloorDiv(x, d) == IF x >= 0 THEN x \div d ELSE 0 - ((Magnitude(x) + d - 1) \div d)

\* C28: for shift < 256 (the width of the word), SAR(shift, value) is
\* floor(signed(value) / 2^shift) in two's complement; for a larger shift it
\* is 0 for a non-negative value and all ones for a negative one
C28_SarIsArithmetic ==
    Done("SAR")
        => LET shift == Operand(1)
               value == Operand(2)
           IN  IF shift >= WordBits
               THEN Pushed = (IF Signed(value) < 0 THEN WordMod - 1 ELSE 0)
               ELSE Pushed = ToWord(FloorDiv(Signed(value), Pow2(shift)))

\* the opcodes with a divisor or a modulus, and the operand that holds it
Divisor == [DIV |-> 2, MOD |-> 2, SDIV |-> 2, SMOD |-> 2, ADDMOD |-> 3, MULMOD |-> 3]

DividedByZero ==
    /\ ev.op \in DOMAIN Divisor
    /\ Operands >= Divisor[ev.op]
    /\ Operand(Divisor[ev.op]) = 0

\* C29: DIV, MOD, SDIV and SMOD with divisor 0 and ADDMOD and MULMOD with
\* modulus 0 never fault: the operands are popped, 0 is pushed and the frame
\* goes on with the next opcode
C29_ByZeroPushesZero ==
    DividedByZero
        => /\ phase = "run"
           /\ Top.result = None
           /\ Top.stack = Append(SubSeq(ev.frame.stack, 1, Operands - Divisor[ev.op]), 0)
           /\ Top.code = CodeNext(ev.frame.code)
           /\ CanStep

\* SMOD(-1, 0) has pushed 0
C29_Witness ==
    /\ DividedByZero
    /\ ev.op = "SMOD"
    /\ Operand(1) = WordMod - 1
    /\ Pushed = 0

\* the immediate bytes of the PUSH at position p that the bytecode holds
ImmediateOf(bytecode, p) ==
    SubSeq(bytecode, p + 2, Min(p + 1 + ImmediateLen(bytecode[p + 1]), Len(bytecode)))

\* the opcode a byte of the stand-alone alphabet stands for
OpcodeOf(bytecode, p) ==
    LET byte == bytecode[p + 1]
    IN  CASE byte = 0 -> Op("STOP")
          [] byte = 86 -> Op("JUMP")
          [] byte = 91 -> Op("JUMPDEST")
          [] byte \in 96..127 -> OpN("PUSH", BigEndian(ImmediateOf(bytecode, p)))
          [] OTHER -> Op("INVALID")

\* C30: the opcode index has the length of the byte string; exactly the
\* positions that hold a PUSH's immediate bytes are absent and every other
\* position holds the opcode of its byte, INVALID for an unassigned byte; a
\* 0x5B inside PUSH data gives no JUMPDEST entry; and next() returns the
\* present opcodes in increasing position order, skipping the absent ones
C30_OpcodeIndex ==
    LET starts == OpcodeStartsFrom(code.bytecode, 0)
    IN  /\ Len(code.opcodes) = Len(code.bytecode)
        /\ \A p \in 0..(Len(code.bytecode) - 1) :
             /\ (p \notin starts) <=> (code.opcodes[p + 1] = Absent)
             /\ p \in starts => code.opcodes[p + 1] = OpcodeOf(code.bytecode, p)
             /\ code.opcodes[p + 1] = Op("JUMPDEST")
                    => (p \in starts /\ code.bytecode[p + 1] = 91)
        /\ jres.op = "next"
            => /\ jres.pos >= jres.before
               /\ \A q \in jres.before..(jres.pos - 1) :
                    q < Len(code.bytecode) /\ code.opcodes[q + 1] = Absent
               /\ jres.pos < Len(code.bytecode) => code.opcodes[jres.pos + 1] # Absent
               /\ code.pc = jres.pos + 1

\* PUSH2 0x5B5B and an unassigned byte: the second next() went from 1 to 3
C30_Witness ==
    /\ code.bytecode = <<97, 91, 91, 12>>
    /\ code.opcodes = <<OpN("PUSH", 23387), Absent, Absent, Op("INVALID")>>
    /\ jres.op = "next"
    /\ jres.before = 1
    /\ jres.pos = 3

\* Byte offset of the opcode a step executed: the first opcode start at or
\* after the counter the frame had before the step.
ExecutedAt ==
    LET later == {p \in OpcodeStartsFrom(ev.frame.code.bytecode, 0) : p >= ev.frame.code.pc}
    IN  CHOOSE p \in later : \A q \in later : p <= q

\* C31: PC pushes the zero-based byte offset of the PC opcode itself, at
\* every position: after a PUSH with immediate data, and after a JUMPDEST
\* that a JUMP or JUMPI jumped to.
C31_PcPushesOwnOffset ==
    (ev.op = "PC" /\ Top.result = None) =>
        /\ ev.frame.code.bytecode[ExecutedAt + 1] = 88
        /\ Pushed = ExecutedAt

C31_Witness ==
    /\ ev.op = "PC" /\ Top.result = None
    /\ Top.code.bytecode = <<96, 1, 96, 6, 87, 0, 91, 88>>
    /\ Pushed = 7

\* the index CALLDATALOAD popped and the calldata of the frame it ran in
CalldataIndex == ev.frame.stack[Len(ev.frame.stack)]
CalldataOf == ev.frame.message.data

\* data[i .. i + WordBytes) read big-endian, a byte past the data being 0
CalldataWord(data, i) ==
    BigEndian([k \in 1..WordBytes |->
                 IF i + k - 1 < Len(data) THEN data[i + k] ELSE 0])

\* C32: CALLDATALOAD(i) pushes the word data[i .. i+32) read big-endian with
\* zeros past the end of the data, for every index i up to the largest word;
\* so the result is 0 for every i >= len(data).
C32_CalldataLoad ==
    (ev.op = "CALLDATALOAD" /\ ev.frame.stack # <<>>) =>
        /\ phase = "run"
        /\ Top.result = None
        /\ Pushed = CalldataWord(CalldataOf, CalldataIndex)
        /\ (CalldataIndex >= Len(CalldataOf) => Pushed = 0)

\* memory that only grew, by zero bytes
ZeroGrown(old, new) ==
    /\ Len(new) >= Len(old)
    /\ \A i \in 1..Len(new) : new[i] = (IF i <= Len(old) THEN old[i] ELSE 0)

\* memory that changed only inside [offset, offset + size), apart from
\* growing by zero bytes
SameOutside(old, new, offset, size) ==
    /\ Len(new) >= Len(old)
    /\ \A i \in 1..Len(new) :
         (i <= offset \/ i > offset + size) =>
             new[i] = (IF i <= Len(old) THEN old[i] ELSE 0)

\* the frames below the top one are the same after the step
LowerFramesKept(n) == SubSeq(frames', 1, n) = SubSeq(frames, 1, n)

\* a step that enters a child frame: the caller's handler up to EVM::execute
EntersChild ==
    /\ frames # <<>>
    /\ Len(frames') = Len(frames) + 1
    /\ LET before == Top
           after == frames'[Len(frames)]
           child == frames'[Len(frames')]
           args == IF ev'.op = "CALL" THEN 7 ELSE 6
       IN  /\ after.stack = SubSeq(before.stack, 1, Len(before.stack) - args)
           /\ ZeroGrown(before.memory, after.memory)
           /\ after.logs = before.logs
           /\ after.last_inner_call = before.last_inner_call
           /\ after.message = before.message
           /\ after.result = None
           /\ child.stack = <<>> /\ child.memory = <<>> /\ child.logs = <<>>
           /\ child.code.pc = 0
           /\ LowerFramesKept(Len(frames) - 1)

\* a step that ends a child frame: the caller's handler from the result on
LeavesChild ==
    /\ frames' # <<>>
    /\ Len(frames') = Len(frames) - 1
    /\ LET before == Parent
           after == frames'[Len(frames')]
           status == Top.result.ok
       IN  /\ after.stack = Append(before.stack, IF status THEN 1 ELSE 0)
           /\ SameOutside(before.memory, after.memory,
                          before.pending.ret_offset, before.pending.ret_size)
           /\ IF status THEN IsPrefix(before.logs, after.logs)
              ELSE after.logs = before.logs
           /\ after.last_inner_call # None
           /\ after.last_inner_call.status = status
           /\ after.last_inner_call.return_data = ReturnData(Top)
           /\ after.message = before.message
           /\ after.code = before.code
           /\ after.result = None
           /\ LowerFramesKept(Len(frames) - 2)

\* C33: a sub-call changes the frame of its caller only so: the arguments
\* are popped and one status word is pushed, memory changes inside the return
\* window and grows by zero bytes, logs are appended only on success, the
\* return-data buffer is replaced; the child starts with an empty stack,
\* empty memory, no logs and pc = 0; frames below the running one never change.
C33_CallFrameEffect ==
    [][/\ (frames # <<>> /\ Len(frames') = Len(frames) + 1) => EntersChild
       /\ (frames' # <<>> /\ Len(frames') = Len(frames) - 1) => LeavesChild
       /\ (frames # <<>> /\ Len(frames') = Len(frames)) => LowerFramesKept(Len(frames) - 1)
       /\ (frames = <<>> /\ frames' # <<>>) =>
            /\ frames'[1].stack = <<>> /\ frames'[1].memory = <<>>
            /\ frames'[1].logs = <<>> /\ frames'[1].code.pc = 0]_vars

\* a caller with a word under the arguments and a written memory came back
\* from a child that returned two bytes into the window at 31
C33_Witness ==
    /\ ev.op = "CALL_RETURN"
    /\ ev.frame.result.ok
    /\ ev.parent.pending.ret_offset = 31 /\ ev.parent.pending.ret_size = 2
    /\ Top.stack = <<9, 1>>
    /\ Len(Top.memory) = 2 * PageSize
    /\ Top.memory[31] = 255 /\ Top.memory[32] = 255 /\ Top.memory[33] = 255
    /\ Top.logs # <<>>

\* the arguments RETURNDATACOPY popped
CopyDest == saturating_to(ev.frame.stack[Len(ev.frame.stack)])
CopyOffset == saturating_to(ev.frame.stack[Len(ev.frame.stack) - 1])
CopySize == saturating_to(ev.frame.stack[Len(ev.frame.stack) - 2])

\* C34: RETURNDATACOPY(destOffset, offset, size) with offset + size inside the
\* return data writes return_data[offset .. offset+size) to
\* memory[destOffset .. destOffset+size): the copy starts at offset.
C34_ReturnDataCopyFromOffset ==
    ( /\ ev.op = "RETURNDATACOPY"
      /\ Len(ev.frame.stack) >= 3
      /\ ev.frame.last_inner_call # None
      /\ CopyOffset + CopySize <= Len(ReturnDataOf(ev.frame)) )
        => /\ phase = "run"
           /\ Top.result = None
           /\ Len(Top.memory) >= CopyDest + CopySize
           /\ \A k \in 1..CopySize :
                Top.memory[CopyDest + k] = ReturnDataOf(ev.frame)[CopyOffset + k]

\* a byte string read as a big-endian integer, first byte first
RECURSIVE ShortInteger(_, _)
ShortInteger(bytes, acc) ==
    IF bytes = <<>> THEN acc
    ELSE ShortInteger(Tail(bytes), (acc * 256 + Head(bytes)) % WordMod)

\* the positions of the PUSHn opcodes with fewer than n bytes after them
TruncatedPushes ==
    { p \in OpcodeStartsFrom(code.bytecode, 0) :
        /\ code.bytecode[p + 1] \in 96..127
        /\ p + 1 + (code.bytecode[p + 1] - 95) > Len(code.bytecode) }

\* C35: a PUSHn with fewer than n bytes after it decodes to a PUSH of the
\* remaining bytes read as a short big-endian integer, 0 when there is none;
\* the index has one entry per byte and no more, and the positions after the
\* PUSH byte are absent.
C35_TruncatedPush ==
    /\ Len(code.opcodes) = Len(code.bytecode)
    /\ \A p \in TruncatedPushes :
         /\ code.opcodes[p + 1] =
                OpN("PUSH", ShortInteger(SubSeq(code.bytecode, p + 2, Len(code.bytecode)), 0))
         /\ p + 1 = Len(code.bytecode) => code.opcodes[p + 1] = OpN("PUSH", 0)
         /\ \A q \in (p + 1)..(Len(code.bytecode) - 1) : code.opcodes[q + 1] = Absent

\* STOP; PUSH2 with the one byte 0x0C after it: next() returned the PUSH
C35_Witness ==
    /\ code.bytecode = <<0, 97, 12>>
    /\ jres.op = "next" /\ jres.pos = 1
    /\ TruncatedPushes = {1}
    /\ code.opcodes[2] = OpN("PUSH", 12)
    /\ code.opcodes[3] = Absent

\* no opcode starts at or after the counter of the code
PastTheEnd(c) == \A p \in OpcodeStartsFrom(c.bytecode, 0) : p < c.pc

\* C36: reading past the end of the bytecode yields an implicit STOP: a frame
\* whose counter has passed the last opcode, in empty code and after a
\* truncated PUSH too, can only run STOP, and that step halts it with success
\* and empty return data, the stack, the memory and the logs being as the
\* last executed opcode left them.
C36_ImplicitStop ==
    /\ (CanStep /\ PastTheEnd(Top.code)) => Fetched.op = "STOP"
    /\ (ev.op # "none" /\ ev.frame # None /\ ev.frame.result = None
            /\ ev.frame.pending = None /\ PastTheEnd(ev.frame.code) /\ phase = "run"
            /\ ev.op \notin {"PROCESS", "TRANSACTION_END"})
        => /\ ev.op = "STOP"
           /\ Top.result = ResultOk(0, 0)
           /\ ReturnData(Top) = <<>>
           /\ Top.stack = ev.frame.stack
           /\ Top.memory = ev.frame.memory
           /\ Top.logs = ev.frame.logs

\* PUSH1 1; PUSH2 with the one byte 5: halted with the two words on the stack
C36_Witness ==
    /\ ev.op = "STOP"
    /\ Top.code.bytecode = <<96, 1, 97, 5>>
    /\ PastTheEnd(ev.frame.code)
    /\ Top.result = ResultOk(0, 0)
    /\ Top.stack = <<1, 5>>

\* the stack of the frame before the step without its k top words
StackBelow(k) == SubSeq(ev.frame.stack, 1, Len(ev.frame.stack) - k)

\* the word at depth k (1 = top) of the stack before the step
StackWord(k) == ev.frame.stack[Len(ev.frame.stack) + 1 - k]

\* what JUMP(counter) does to a frame whose stack is left as `rest`
JumpedTo(counter, rest) ==
    IF counter <= UsizeMax /\ ValidJumpdest(ev.frame.code.bytecode, counter)
    THEN /\ Top.result = None
         /\ Top.code.pc = counter
         /\ Top.stack = rest
    ELSE /\ Top.result = ResultErr("InvalidJumpdest")
         /\ Top.stack = rest

\* C37: JUMPI(counter, cond) with cond = 0 pops both words and goes on with
\* the opcode after the JUMPI, whatever counter is, and never fails with
\* InvalidJumpdest; with cond # 0 it does what JUMP(counter) does.
C37_ConditionalJump ==
    /\ (ev.op = "JUMPI" /\ Len(ev.frame.stack) >= 2 /\ StackWord(2) = 0)
        => /\ Top.result = None
           /\ Top.stack = StackBelow(2)
           /\ Top.code.pc = ExecutedAt + 1
    /\ (ev.op = "JUMPI" /\ Len(ev.frame.stack) >= 2 /\ StackWord(2) # 0)
        => JumpedTo(StackWord(1), StackBelow(2))
    /\ (ev.op = "JUMP" /\ Len(ev.frame.stack) >= 1)
        => JumpedTo(StackWord(1), StackBelow(1))

\* a JUMPI with cond = 0 and a counter past the end of the code went on
C37_Witness ==
    /\ ev.op = "JUMPI"
    /\ Top.code.bytecode = <<96, 0, 96, 9, 87, 88>>
    /\ StackWord(1) = 9 /\ StackWord(2) = 0
    /\ Top.result = None
    /\ Top.code.pc = 5

\* the number of topics of the LOG opcode the step executed
LogTopics == ev.frame.code.bytecode[ExecutedAt + 1] - 160

\* memory[offset, offset + size) of the frame before the step, a byte past
\* the end of the memory being 0
MemoryWindow(offset, size) ==
    [k \in 1..size |->
        IF offset + k <= Len(ev.frame.memory) THEN ev.frame.memory[offset + k] ELSE 0]

\* C38: LOGn in a non-static frame pops exactly 2 + n words, offset, size and
\* then topic1 .. topicN, and appends exactly one log: its address is the
\* target of the frame (under DELEGATECALL the caller's target, not the
\* delegate whose code runs), its topics are the popped topics in pop order,
\* its data is memory[offset, offset + size).
C38_LogAppendsOne ==
    ( /\ ev.op = "LOG"
      /\ ~is_staticcall(ev.frame.message)
      /\ Len(ev.frame.stack) >= 2 + LogTopics )
        => /\ Top.result = None
           /\ Top.stack = StackBelow(2 + LogTopics)
           /\ Len(Top.logs) = Len(ev.frame.logs) + 1
           /\ SubSeq(Top.logs, 1, Len(ev.frame.logs)) = ev.frame.logs
           /\ LET log == Top.logs[Len(Top.logs)]
              IN  /\ log.address = Top.message.target
                  /\ (Depth > 1 /\ Parent.pending.op = "DELEGATECALL")
                        => /\ log.address = Parent.message.target
                           /\ log.address # Top.message.delegate
                  /\ (Depth = 1) => log.address = ContractA
                  /\ log.topics = [k \in 1..LogTopics |-> StackWord(2 + k)]
                  /\ log.data = MemoryWindow(saturating_to(StackWord(1)),
                                             saturating_to(StackWord(2)))

\* LOG2 run by the delegate B in the frame of A: the log is A's
C38_Witness ==
    /\ ev.op = "LOG"
    /\ Depth = 2 /\ Parent.pending.op = "DELEGATECALL"
    /\ Top.stack = <<9>>
    /\ Top.logs = << [address |-> ContractA, topics |-> <<11, 12>>, data |-> <<1, 2, 0>>] >>

\* the depth of the stack before the operation
DepthBefore == Len(ures.before)

\* C39: for n in 1..16, DUP(n) succeeds exactly when n <= depth < 1024 and
\* then pushes a copy of the n-th word from the top over the unchanged stack;
\* SWAP(n) succeeds exactly when depth >= n + 1 and then exchanges the top
\* word with the (n+1)-th word from the top, depth and the other words
\* unchanged, so that a second SWAP(n) restores the stack; a DUP or SWAP that
\* fails leaves the stack as it was.
C39_DupAndSwap ==
    /\ ures.op = "dup" =>
         /\ ures.arg \in 1..16
         /\ ures.ok <=> (DepthBefore >= ures.arg /\ DepthBefore < StackLimit)
         /\ ures.ok => unit = Append(ures.before, ures.before[DepthBefore + 1 - ures.arg])
         /\ ~ures.ok => unit = ures.before
    /\ ures.op = "swap" =>
         /\ ures.arg \in 1..16
         /\ ures.ok <=> DepthBefore >= ures.arg + 1
         /\ ures.ok =>
              /\ Len(unit) = DepthBefore
              /\ unit[DepthBefore] = ures.before[DepthBefore - ures.arg]
              /\ unit[DepthBefore - ures.arg] = ures.before[DepthBefore]
              /\ \A i \in 1..DepthBefore :
                   i \notin {DepthBefore, DepthBefore - ures.arg} => unit[i] = ures.before[i]
              /\ swap(unit, ures.arg).ok
              /\ swap(unit, ures.arg).stack = ures.before
         /\ ~ures.ok => unit = ures.before

\* SWAP16 exchanged two different words of a stack of at least 17 words
C39_Witness ==
    /\ ures.op = "swap" /\ ures.arg = 16 /\ ures.ok
    /\ DepthBefore >= 17
    /\ unit # ures.before
    /\ unit[DepthBefore] = ures.before[DepthBefore - 16]

\* the frame on top after the step
TopAfter == frames'[Len(frames')]

\* a step of the loop that stays in the frame on top
StepsInFrame == frames # <<>> /\ Len(frames') = Len(frames) /\ frames' # frames

\* C40: the result of a frame is recorded exactly when it halts. A frame
\* whose result is set is the running one and the next step converts it, so
\* no step runs in it and its result is set once; the conversion always finds
\* a result and hands that one on; a step of STOP, RETURN, REVERT or INVALID
\* and a step that fails set it, a step that goes on leaves it unset; and a
\* frame has a result on entry only by the early exit for a Staticcall with
\* value.
C40_ResultSetWhenHalted ==
    [][/\ \A i \in 1..Len(frames) :
            frames[i].result # None
                => /\ i = Len(frames)
                   /\ Len(frames') = Len(frames) - 1
                   /\ ev'.frame = frames[i]
       /\ Len(frames') < Len(frames)
            => /\ Top.result # None
               /\ frames' # <<>> => /\ TopAfter.last_inner_call # None
                                    /\ TopAfter.last_inner_call.status = Top.result.ok
               /\ frames' = <<>> => txresult'.success = Top.result.ok
       /\ (StepsInFrame /\ ev'.op \in {"STOP", "RETURN", "REVERT", "INVALID"})
            => TopAfter.result # None
       /\ (StepsInFrame /\ ev'.op \in {"PUSH", "PC", "JUMPDEST"})
            => TopAfter.result = None
       /\ (StepsInFrame /\ ev'.op \in {"POP", "MLOAD"})
            => (TopAfter.result = None <=> Top.stack # <<>>)
       /\ (StepsInFrame /\ TopAfter.result # None /\ ~TopAfter.result.ok)
            => TopAfter.result.err # "none"
       /\ (Len(frames') = Len(frames) + 1 /\ TopAfter.result # None)
            => /\ TopAfter.result = ResultErr("StateModificationDisallowed")
               /\ is_staticcall(TopAfter.message)
               /\ TopAfter.message.value # 0]_vars

\* a frame that an opcode error halted was converted into the result of the
\* transaction
C40_Witness ==
    /\ ev.op = "TRANSACTION_END"
    /\ ev.frame.result # None
    /\ ev.frame.result.err \notin {"none", "Revert"}
    /\ phase = "done"
    /\ ~txresult.success

====
